---- MODULE Spec2Model ----
(***************************************************************************)
(* The module loader / symbol resolver of icpp (src/src/loader.cpp) as a   *)
(* state machine.  Every thread owns a call stack of frames; a frame is    *)
(* one activation of a ModuleLoader member function and its pc names the   *)
(* next statement of that function that touches shared state.  Container   *)
(* operations (find, insert, push_back) are single steps; the predicate    *)
(* DataRace reports states in which two threads are about to perform       *)
(* conflicting unsynchronised accesses.                                    *)
(***************************************************************************)
EXTENDS Integers, Sequences, FiniteSets, TLC

VARIABLES
    syms,        \* syms_: name -> [val, slot]; slot = 0 means "not cached"
    nextSlot,    \* the address the next allocated cache node gets
    mhandles,    \* mhandles_: path -> handle, 0 = no entry
    imods,       \* imods_: sequence of interpreted objects
    mods,        \* mods_: set of <<base, path>> pairs (std::map keyed by base)
    modits,      \* modits_: sequence of entries of mods_, by increasing base
    boost,       \* the function-local static latch of lookup()
    nloaded,     \* native libraries mapped into the process by load_library
    lockOwner,   \* mutex_: the owning thread, or NoThread
    lockCount,   \* mutex_: recursion depth
    stack,       \* per thread: the frames of the calls in progress
    calls,       \* number of top-level calls the threads may still issue
    overlaps,    \* number of calls that began while another thread was in a call
    rets,        \* history: results of the completed global resolve calls
    located,     \* history: the path the last locateModule call returned
    loadSeq,     \* history: paths in the order loadLibrary registered them
    boostRuns,   \* history: how often the lazy boost group load was executed
    faddr,       \* history: the address the last locateModule call was given
    text,        \* the text section under decode: arch, format, frva, its units
    opc,         \* decodeInsns: the cursor, as an offset from text.vm
    inst,        \* decodeInsns: the MCInst the last successful decode left
    iinfs,       \* text.iinfs: the instruction records, in push_back order
    irelocs,     \* irelocs_: the relocation records, in insertion order
    idecinfs,    \* idecinfs_: raw instruction bytes -> operand encoding
    ophase,      \* where the object's life cycle stands
    iquery,      \* the last insnInfo call: the address asked and the answer
    cache,       \* the interpretable-object container generateCache wrote
    lobj,        \* the InterpObject constructed from a container
    session,     \* the interpreter session and its end (Loader::deinitialize)
    cmd,         \* icpp_main: the command line, and what it parsed and started
    relsym       \* one RelocSymbol: as gathered, and as relocate_data applied it

\* the variables of the resolver's threads
loaderVars == <<syms, nextSlot, mhandles, imods, mods, modits, boost, nloaded,
                lockOwner, lockCount, stack, calls, overlaps, rets, located,
                loadSeq, boostRuns>>

\* the variables the resolver's threads never touch
objVars == <<text, opc, inst, iinfs, irelocs, idecinfs, ophase, iquery, cache, lobj>>

ovars == <<faddr, objVars, session, cmd, relsym>>

vars == <<loaderVars, ovars>>

-----------------------------------------------------------------------------
(* Bounds of the model *)

MaxCalls == 3       \* top-level calls into the loader in one behaviour
MaxFairCalls == 2   \* the same, in the behaviours checked for progress
MaxOverlaps == 1    \* of these, calls that begin while another call is in progress

-----------------------------------------------------------------------------
(* Threads *)

MainThread == "main"
Threads == {"main", "t1", "t2"}
NoThread == "none"

\* ModuleLoader::isMain
isMain(t) == t = MainThread

-----------------------------------------------------------------------------
(* The environment: addresses, libraries, objects, tables *)

NULL == 0
RAISED == -1

AbortAddr == 21          \* &abort
DsoHandleStorage == 13   \* &__dso_handle
SlotBase == 100          \* cache nodes live at SlotBase + 1, SlotBase + 2, ...

LibCxxPath == "/icpp/libc++.so"
BoostLibPath == "/icpp/lib/boost/libboost.so"
ExePath == "/icpp/icpp"

Names == {"f", "f2", "q", "r", "p", "boost_x", "nosuch", "___dso_handle"}

\* std::less<std::string> on the paths of the model, smallest first
PathOrder == <<"/icpp/libc++.so", "a.so", "b.so", "m.io", "m.o", "n.o", "x.so">>
Paths == {PathOrder[i] : i \in 1..Len(PathOrder)}

NativeLibs == {LibCxxPath, "a.so", "b.so", BoostLibPath}
Objects == {"m.o"}

NoExports == [n \in Names |-> NULL]

\* what dlsym finds in each native library
NativeExports(path) ==
    CASE path = "a.so" -> [NoExports EXCEPT !["f"] = 31, !["f2"] = 31]
      [] path = "b.so" -> [NoExports EXCEPT !["f"] = 41, !["r"] = 42]
      [] OTHER -> NoExports

\* the symbols the executable itself and the system libraries define
\* (f2 is a second name of the routine at f's address)
ProcTable == [NoExports EXCEPT !["f"] = 11, !["f2"] = 11, !["p"] = 12]

\* Object::locateSymbol: the function and data symbols an object defines
ObjExports(obj) ==
    CASE obj = "m.o" -> [NoExports EXCEPT !["f"] = 61, !["q"] = 62]
      [] OTHER -> NoExports

\* the undefined symbols an object's relocations reference
ObjUndefined(obj) ==
    CASE obj = "m.o" -> <<"p">>
      [] OTHER -> <<>>

\* Object::belong and Object::executable: the address range of an object
ObjBelong(obj, vm) == obj = "m.o" /\ vm >= 60 /\ vm < 70
ObjExecutable(obj, vm) == obj = "m.o" /\ vm >= 60 /\ vm < 65

HandleOf(path) ==
    CASE path = LibCxxPath -> 201
      [] path = "a.so" -> 202
      [] path = "b.so" -> 203
      [] path = BoostLibPath -> 204
      [] path = "m.o" -> 301
      [] path = "m.io" -> 302
      [] path = "n.o" -> 303
      [] OTHER -> NULL

PathOfHandle(h) ==
    CASE h = 201 -> LibCxxPath
      [] h = 202 -> "a.so"
      [] h = 203 -> "b.so"
      [] h = 204 -> BoostLibPath
      [] h = 301 -> "m.o"
      [] h = 302 -> "m.io"
      [] h = 303 -> "n.o"
      [] OTHER -> ""

ModBase(path) ==
    CASE path = ExePath -> 10
      [] path = LibCxxPath -> 20
      [] path = "a.so" -> 30
      [] path = "b.so" -> 40
      [] path = BoostLibPath -> 50
      [] OTHER -> 0

\* path.ends_with(obj_ext) || path.ends_with(iobj_ext)
IsObjectPath(path) == path \in {"m.o", "n.o", "m.io"}

\* name.find("boost") != npos
IsBoostName(n) == n \in {"boost_x"}

\* static_cast<uint32_t>(std::hash<std::string_view>{}(name))
Hash(n) ==
    CASE n = "f" -> 3
      [] n = "q" -> 9
      [] n = "r" -> 4
      [] n = "p" -> 5
      [] n = "boost_x" -> 6
      [] n = "nosuch" -> 8
      [] OTHER -> 2

\* hashes_: one entry per library, in iteration order, with its sorted hashes
HashIndex ==
    << [path |-> "m.o", hashes |-> <<4, 9>>], [path |-> "b.so", hashes |-> <<4>>] >>

-----------------------------------------------------------------------------
(* Platform collaborators *)

\* load_library: dlopen of a native library; 0 when the file is no library
load_library(path) ==
    IF path \in NativeLibs THEN HandleOf(path) ELSE NULL

\* find_symbol: dlsym on a handle, or on the whole process for a null handle
find_symbol(h, n) ==
    IF h = NULL THEN ProcTable[n]
    ELSE IF PathOfHandle(h) \in NativeLibs THEN NativeExports(PathOfHandle(h))[n]
    ELSE NULL

\* iterate_modules: the modules mapped into the process, as <<base, path>>
EnvModules(loaded) ==
    {<<ModBase(ExePath), ExePath>>} \cup {<<ModBase(p), p>> : p \in loaded}

-----------------------------------------------------------------------------
(* Containers *)

NoSym == [val |-> NULL, slot |-> 0]

\* syms_.find(name) != syms_.end()
SymsHas(s, n) == s[n].slot # 0

\* syms_.insert({name, target}): a new node only when the key is absent
SymsInsertDropped(s, n, v, k) == s
SymsAssign(s, n, v, k) ==
    [s EXCEPT ![n] = [val |-> v, slot |-> IF SymsHas(s, n) THEN s[n].slot ELSE k]]
SymsInsert(s, n, v, k) ==
    IF SymsHas(s, n) THEN s ELSE [s EXCEPT ![n] = [val |-> v, slot |-> k]]

\* the node address syms_.insert hands out next
SlotAfterInsert(s, n, k) == IF SymsHas(s, n) THEN k ELSE k + 1

\* return data ? &found->second : found->second
RetNoIndirection(e, data) == e.val
SlotRet(e, data) == IF data THEN e.slot ELSE e.val

\* the constructor's syms_.insert({"___dso_handle", &__dso_handle})
SeedsNothing(ns) == [n \in ns |-> NoSym]
SeededSyms(ns) ==
    [n \in ns |->
       IF n = "___dso_handle"
       THEN [val |-> DsoHandleStorage, slot |-> SlotBase + 1]
       ELSE NoSym]

\* mhandles_.insert({path, addr}): keeps an existing entry
HandlesInsert(mh, path, h) ==
    IF mh[path] # NULL THEN mh ELSE [mh EXCEPT ![path] = h]

\* the keys of mhandles_ in the iteration order of std::map
RECURSIVE HandleSeqFrom(_, _)
HandleSeqFrom(mh, i) ==
    IF i > Len(PathOrder) THEN <<>>
    ELSE IF mh[PathOrder[i]] # NULL
         THEN <<PathOrder[i]>> \o HandleSeqFrom(mh, i + 1)
         ELSE HandleSeqFrom(mh, i + 1)

HandleSeq(mh) == HandleSeqFrom(mh, 1)

\* mods_.insert({base, path}) for every enumerated module: one entry per base
ModsInsertAll(ms, env) ==
    ms \cup {e \in env : \A m \in ms : m[1] # e[1]}

\* the entries of mods_ by increasing base (std::map iteration order)
RECURSIVE SortedMods(_)
SortedMods(ms) ==
    IF ms = {} THEN <<>>
    ELSE LET lo == CHOOSE m \in ms : \A o \in ms : m[1] <= o[1]
         IN <<lo>> \o SortedMods(ms \ {lo})

-----------------------------------------------------------------------------
(* The search tiers of ModuleLoader::lookup *)

\* for (auto io : imods_) { t = io->locateSymbol(name); if (t) break; }
RECURSIVE SearchImodsFrom(_, _, _)
SearchImodsFrom(ims, n, i) ==
    IF i > Len(ims) THEN NULL
    ELSE IF ObjExports(ims[i])[n] # NULL THEN ObjExports(ims[i])[n]
    ELSE SearchImodsFrom(ims, n, i + 1)

SearchImods(ims, n) == SearchImodsFrom(ims, n, 1)

\* for (auto &m : mhandles_) { if ((target = find_symbol(m.second, name))) break; }
RECURSIVE SearchHandlesFrom(_, _, _, _, _)
SearchHandlesFrom(mh, hs, n, i, target) ==
    IF i > Len(hs) THEN target
    ELSE LET t == find_symbol(mh[hs[i]], n)
         IN IF t # NULL THEN t ELSE SearchHandlesFrom(mh, hs, n, i + 1, t)

SearchHandles(mh, n, target) == SearchHandlesFrom(mh, HandleSeq(mh), n, 1, target)

\* if (!target) target = find_symbol(nullptr, name);
SearchProc(n, target) == IF target = NULL THEN find_symbol(NULL, n) ELSE target

\* the three tiers in the order lookup runs them
LookupTiers(ims, mh, n) == SearchProc(n, SearchHandles(mh, n, SearchImods(ims, n)))

\* std::binary_search over one library's sorted hash table
RECURSIVE HashSearch(_, _, _, _)
HashSearch(hs, lo, hi, h) ==
    IF lo > hi THEN FALSE
    ELSE LET mid == (lo + hi) \div 2
         IN IF hs[mid] = h THEN TRUE
            ELSE IF hs[mid] < h THEN HashSearch(hs, mid + 1, hi, h)
            ELSE HashSearch(hs, lo, mid - 1, h)

\* RuntimeLib::find: the first library whose table holds the name's hash
RECURSIVE RuntimeLibFindFrom(_, _)
RuntimeLibFindFrom(n, i) ==
    IF i > Len(HashIndex) THEN ""
    ELSE IF HashSearch(HashIndex[i].hashes, 1, Len(HashIndex[i].hashes), Hash(n))
         THEN HashIndex[i].path
         ELSE RuntimeLibFindFrom(n, i + 1)

RuntimeLibFind(n) == RuntimeLibFindFrom(n, 1)

\* the scoped search of resolve(handle, name, data)
RECURSIVE ScopedImodsFrom(_, _, _, _)
ScopedImodsFrom(ims, h, n, i) ==
    IF i > Len(ims) THEN NULL
    ELSE IF h = HandleOf(ims[i]) /\ ObjExports(ims[i])[n] # NULL
         THEN ObjExports(ims[i])[n]
         ELSE ScopedImodsFrom(ims, h, n, i + 1)

ScopedNativeOnly(ims, h, n) == find_symbol(h, n)
ScopedTarget(ims, h, n) ==
    LET t == ScopedImodsFrom(ims, h, n, 1)
    IN IF t # NULL THEN t ELSE find_symbol(h, n)

\* the binary search of ModuleLoader::find over modits_ (0-based low/high)
RECURSIVE ModuleSearch(_, _, _, _)
ModuleSearch(its, low, high, target) ==
    IF low > high THEN ""
    ELSE LET mid == (low + high) \div 2
         IN IF mid + 1 = Len(its) THEN its[mid + 1][2]
            ELSE IF its[mid + 1][1] <= target /\ target < its[mid + 2][1]
                 THEN its[mid + 1][2]
            ELSE IF its[mid + 1][1] > target
                 THEN ModuleSearch(its, low, mid - 1, target)
                 ELSE ModuleSearch(its, mid + 1, high, target)

\* for (auto m : imods_) if (m->belong(addr)) return m->cachePath();
RECURSIVE BelongFrom(_, _, _)
BelongFrom(ims, vm, i) ==
    IF i > Len(ims) THEN ""
    ELSE IF ObjBelong(ims[i], vm) THEN ims[i] ELSE BelongFrom(ims, vm, i + 1)

FindModule(ims, its, addr) ==
    IF BelongFrom(ims, addr, 1) # "" THEN BelongFrom(ims, addr, 1)
    ELSE ModuleSearch(its, 0, Len(its) - 1, addr)

-----------------------------------------------------------------------------
(* The recursive mutex and the guard *)

\* std::recursive_mutex: a thread may lock it when it is free or its own
MutexFreeOnly(t, m) == m.owner = NoThread
MutexAvailable(t, m) == m.owner \in {NoThread, t}

\* std::recursive_mutex::lock, once the calling thread may take it
MutexLock(t, m) == [owner |-> t, count |-> m.count + 1]

\* std::recursive_mutex::unlock
MutexUnlock(m) ==
    [owner |-> IF m.count = 1 THEN NoThread ELSE m.owner, count |-> m.count - 1]

\* LockGuard::LockGuard: if (!parent_->isMain()) mutex_.lock();
GuardAcquire(t, m) == IF isMain(t) THEN m ELSE MutexLock(t, m)

\* LockGuard::~LockGuard: if (!parent_->isMain()) mutex_.unlock();
GuardKeepsLock(t, m) == m
GuardRelease(t, m) == IF isMain(t) THEN m ELSE MutexUnlock(m)

Mutex == [owner |-> lockOwner, count |-> lockCount]

-----------------------------------------------------------------------------
(* Call stacks *)

Frame(op, pc) ==
    [op |-> op, pc |-> pc, name |-> "", data |-> FALSE, path |-> "",
     handle |-> NULL, addr |-> 0, update |-> FALSE, target |-> NULL,
     ret |-> NULL, via |-> "", late |-> FALSE, locked |-> FALSE,
     gImod |-> NULL, gFirst |-> NULL]

Busy(t) == stack[t] # <<>>
Top(t) == stack[t][Len(stack[t])]
At(t, op, pc) == Busy(t) /\ Top(t).op = op /\ Top(t).pc = pc

SetTop(t, f) == [stack EXCEPT ![t] = [@ EXCEPT ![Len(@)] = f]]
Push(t, caller, callee) ==
    [stack EXCEPT ![t] = [@ EXCEPT ![Len(@)] = caller] \o <<callee>>]
PushNew(t, callee) == [stack EXCEPT ![t] = @ \o <<callee>>]

\* return r to the caller: its frame reads the value from its ret field
Pop(t, r) ==
    LET s == stack[t]
        n == Len(s)
    IN [stack EXCEPT ![t] =
          IF n = 1 THEN <<>>
          ELSE SubSeq(s, 1, n - 2) \o <<[s[n - 1] EXCEPT !.ret = r]>>]

\* a completed global resolve has already returned an address for this name
Returned(n) == \E e \in rets : e.name = n /\ e.addr # RAISED

ResolveFrame(n, d) ==
    [Frame("resolve", "lock") EXCEPT !.name = n, !.data = d, !.late = Returned(n)]

Log(f, a) == [name |-> f.name, data |-> f.data, addr |-> a]

-----------------------------------------------------------------------------
(* Object files: text sections, their instructions and relocations *)

X86_64 == "x86_64"
AArch64 == "aarch64"

ST_Function == "func"
ST_Data == "data"

\* sections an object of the model has besides its text: index 2 is a data
\* section with file content, index 3 a BSS section
DataSectIndex == 2
BssSectIndex == 3

\* SectionRef::getAddress of a section
SectAddress(idx) == IF idx = BssSectIndex THEN 16 ELSE 0

\* SectionRef::getContents().data(): where the file buffer holds the section
SectContent(idx) == IF idx = BssSectIndex THEN 800 ELSE 700

\* dynsects_ after parseSections: {index, buffer}; buffer.data() is 500
DynBuffer == 500
dynsects == << [index |-> BssSectIndex, buffer |-> DynBuffer] >>

\* RelocSymbol: the symbol and relocation detail reloc_symbols stores per site
NoRsym ==
    [name |-> "", undef |-> FALSE, rtype |-> "", sect |-> 0, symaddr |-> 0,
     addend |-> 0]

Rsym(r) ==
    CASE r = "f" -> [NoRsym EXCEPT !.name = "f", !.undef = TRUE, !.rtype = "plain"]
      [] r = "f_got" -> [NoRsym EXCEPT !.name = "f", !.undef = TRUE, !.rtype = "got"]
      [] r = "f_12l" ->
            [NoRsym EXCEPT !.name = "f", !.undef = TRUE, !.rtype = "pageoff12l"]
      [] r = "f2" -> [NoRsym EXCEPT !.name = "f2", !.undef = TRUE, !.rtype = "plain"]
      [] r = "nosuch" ->
            [NoRsym EXCEPT !.name = "nosuch", !.undef = TRUE, !.rtype = "plain"]
      [] r = "g" ->
            [NoRsym EXCEPT !.name = "g", !.rtype = "plain", !.sect = BssSectIndex,
                           !.symaddr = 24]
      [] r = "g_got" ->
            [NoRsym EXCEPT !.name = "g", !.rtype = "got", !.sect = BssSectIndex,
                           !.symaddr = 24]
      [] r = "d" ->
            [NoRsym EXCEPT !.name = "d", !.rtype = "plain", !.sect = DataSectIndex,
                           !.symaddr = 8, !.addend = 4]
      [] OTHER -> NoRsym

\* What the disassembler makes of the bytes at one place of a text section:
\* st is the status, size the size it reports, bytes the raw bytes of the unit,
\* prefix/hw say what parseInst and prefix_inst see, enc is the operand
\* encoding, rel/roff the relocation site inside the unit.
NoUnit ==
    [st |-> "fail", size |-> 0, bytes |-> <<0>>, prefix |-> FALSE, hw |-> FALSE,
     enc |-> "", rel |-> "", roff |-> 0]

Insn(bytes, enc, rel, roff) ==
    [NoUnit EXCEPT !.st = "ok", !.size = Len(bytes), !.bytes = bytes, !.enc = enc,
                   !.rel = rel, !.roff = roff]

X64Units ==
    {"ret", "call_f", "call_f2", "call_n", "load_f", "rd_g", "wr_g", "got_g",
     "rd_d", "hw", "lock", "bad", "bad1", "soft", "soft0"}
A64Units ==
    {"a_ret", "a_bl_f", "a_bl_f2", "a_adrp_f", "a_ldr_f", "a_got_f", "a_ldr_g",
     "a_bad"}

Unit ==
    [u \in X64Units \cup A64Units \cup {""} |->
        CASE u = "ret" -> Insn(<<195>>, "", "", 0)
          [] u = "call_f" -> Insn(<<232, 0, 0, 0, 0>>, "i", "f", 1)
          [] u = "call_f2" -> Insn(<<232, 0, 0, 0, 1>>, "i", "f2", 1)
          [] u = "call_n" -> Insn(<<232, 0, 0, 0, 2>>, "i", "nosuch", 1)
          [] u = "load_f" -> Insn(<<72, 139, 5, 0, 0, 0, 0>>, "ri", "f_got", 3)
          [] u = "rd_g" -> Insn(<<139, 5, 0, 0, 0, 0>>, "ri", "g", 2)
          [] u = "wr_g" -> Insn(<<137, 5, 0, 0, 0, 0>>, "ri", "g", 2)
          [] u = "got_g" -> Insn(<<72, 139, 13, 0, 0, 0, 0>>, "ri", "g_got", 3)
          [] u = "rd_d" -> Insn(<<139, 13, 0, 0, 0, 0>>, "ri", "d", 2)
          [] u = "hw" -> [Insn(<<15, 5>>, "", "", 0) EXCEPT !.hw = TRUE]
          [] u = "lock" -> [Insn(<<240>>, "", "", 0) EXCEPT !.prefix = TRUE]
          [] u = "bad" -> [NoUnit EXCEPT !.bytes = <<6>>]
          [] u = "bad1" -> [NoUnit EXCEPT !.bytes = <<7>>, !.size = 1]
          [] u = "soft" -> [NoUnit EXCEPT !.st = "soft", !.size = 2, !.bytes = <<98, 1>>]
          [] u = "soft0" -> [NoUnit EXCEPT !.st = "soft", !.bytes = <<14>>]
          [] u = "a_ret" -> Insn(<<192, 3, 95, 214>>, "r", "", 0)
          [] u = "a_bl_f" -> Insn(<<0, 0, 0, 148>>, "i", "f", 0)
          [] u = "a_bl_f2" -> Insn(<<1, 0, 0, 148>>, "i", "f2", 0)
          [] u = "a_adrp_f" -> Insn(<<8, 0, 0, 144>>, "ri", "f", 0)
          [] u = "a_ldr_f" -> Insn(<<8, 1, 64, 249>>, "rri", "f_12l", 0)
          [] u = "a_got_f" -> Insn(<<9, 0, 0, 144>>, "ri", "f_got", 0)
          [] u = "a_ldr_g" -> Insn(<<8, 1, 64, 185>>, "rri", "g", 0)
          [] u = "a_bad" -> [NoUnit EXCEPT !.bytes = <<255, 255, 255, 255>>]
          [] OTHER -> NoUnit]

\* the bytes that follow the section in the file buffer, as the decoder sees them
TailsOf(arch) == IF arch = AArch64 THEN {"a_ret", "a_bad"} ELSE {"ret", "bad"}

\* the section sizes and contents the model decodes
MaxUnitsX64 == 2
MaxUnitsA64 == 3

RECURSIVE UnitSeqs(_, _)
UnitSeqs(us, n) ==
    IF n = 0 THEN {<<>>}
    ELSE LET shorter == UnitSeqs(us, n - 1)
         IN shorter \cup {Append(q, u) : q \in {x \in shorter : Len(x) = n - 1}, u \in us}

Texts ==
    {[arch |-> a, fmt |-> f, frva |-> r, units |-> q] :
        a \in {X86_64}, f \in {"ELF", "COFF"}, r \in {0, 64},
        q \in UnitSeqs(X64Units, MaxUnitsX64) \ {<<>>}}
    \cup
    {[arch |-> a, fmt |-> f, frva |-> r, units |-> q] :
        a \in {AArch64}, f \in {"ELF", "COFF"}, r \in {0, 64},
        q \in UnitSeqs(A64Units, MaxUnitsA64) \ {<<>>}}

\* text.size and the raw bytes at text.vm, followed by the tail
RECURSIVE BytesOf(_)
BytesOf(q) == IF q = <<>> THEN <<>> ELSE Unit[Head(q)].bytes \o BytesOf(Tail(q))

TextSize(tx) == Len(BytesOf(tx.units))

\* the offset at which the i-th unit starts
StartOf(q, i) == Len(BytesOf(SubSeq(q, 1, i - 1)))

\* the unit that starts at an offset; past the end the tail is decoded
UnitAt(tx, tail, off) ==
    LET q == tx.units \o <<tail>>
        hit == {i \in 1..Len(q) : StartOf(q, i) = off}
    IN IF hit = {} THEN "" ELSE q[CHOOSE i \in hit : TRUE]

\* DisAsm->getInstruction at an offset: status, reported size, decoded unit
DisAsm(tx, tail, off) ==
    LET u == UnitAt(tx, tail, off)
    IN [st |-> Unit[u].st, size |-> Unit[u].size, id |-> u]

\* std::string(opc, len): the raw bytes of an instruction
RawBytes(tx, tail, off, len) ==
    LET all == BytesOf(tx.units \o <<tail, tail, tail, tail>>)
    IN SubSeq(all, off + 1, off + len)

\* rsyms: the relocation site at a section offset, "" when there is none
RsymAt(tx, off) ==
    LET hit == {i \in 1..Len(tx.units) :
                   /\ Unit[tx.units[i]].rel # ""
                   /\ StartOf(tx.units, i) + Unit[tx.units[i]].roff = off}
    IN IF hit = {} THEN "" ELSE Unit[tx.units[CHOOSE i \in hit : TRUE]].rel

\* prefix_inst(inst)
prefix_inst(i) == Unit[i].prefix

\* reloc_symtype: the relocation types listed as data per format, else function
reloc_symtype(arch, fmt, rsym) ==
    IF rsym.rtype = "got" /\ ~(arch = AArch64 /\ fmt = "COFF")
    THEN ST_Data ELSE ST_Function

-----------------------------------------------------------------------------
(* Initial state: the loader as its constructor leaves it *)

\* ModuleLoader::ModuleLoader: the simulated globals are cached, libc++ is
\* loaded through loadLibrary on the constructing (main) thread
Loaded ==
    /\ syms = SeededSyms(Names)
    /\ nextSlot = SlotBase + 2
    /\ mhandles = [p \in Paths |-> IF p = LibCxxPath THEN load_library(p) ELSE NULL]
    /\ imods = <<>>
    /\ mods = {}
    /\ modits = <<>>
    /\ boost = FALSE
    /\ nloaded = {LibCxxPath}
    /\ lockOwner = NoThread
    /\ lockCount = 0
    /\ stack = [t \in Threads |-> <<>>]
    /\ overlaps = 0
    /\ rets = {}
    /\ loadSeq = <<LibCxxPath>>
    /\ boostRuns = 0
    /\ located = ""

\* no locateModule call has been made
NoFind == faddr = NULL

\* the interpreter session: running, or where Loader::deinitialize is; gens
\* counts the generateCache calls made on each object, loaded is the history
\* of the objects the session loaded
SessionObjects == {"m.o", "n.o", "m.io"}

NoSession ==
    [phase |-> "running", exitcode |-> 0, i |-> 0,
     gens |-> [o \in SessionObjects |-> 0], loaded |-> {}]

\* icpp_main has not been entered
NoCmd == [pc |-> "none", argv |-> <<>>, ret |-> 0, opts |-> <<>>, runs |-> <<>>]

\* no relocation has been gathered
NoRelSym ==
    [pc |-> "none", fmt |-> "", arch |-> "", rtype |-> "", sflags |-> "",
     symoff |-> 0, raw |-> 0, addend |-> 0, offset |-> 0, size |-> 0,
     inplace |-> 0, mem |-> <<>>, wrote |-> {}, warned |-> FALSE,
     stubspots |-> <<>>]

\* no object is being decoded
NoObject ==
    /\ text = [arch |-> "", fmt |-> "", frva |-> 0, units |-> <<>>]
    /\ opc = 0
    /\ inst = ""
    /\ iinfs = <<>>
    /\ irelocs = <<>>
    /\ idecinfs = {}
    /\ ophase = "idle"
    /\ iquery = <<>>
    /\ cache = <<>>
    /\ lobj = <<>>
    /\ session = NoSession
    /\ cmd = NoCmd
    /\ relsym = NoRelSym

Init == Loaded /\ calls = MaxCalls /\ NoFind /\ NoObject

FairInit == Loaded /\ calls = MaxFairCalls /\ NoFind /\ NoObject

-----------------------------------------------------------------------------
(* Entry points: a thread with no call in progress enters the loader *)

AllIdle == \A u \in Threads : ~Busy(u)

\* The non-main threads run the same code, so "t2" stands for the second
\* non-main thread only where two of them meet: it enters while "t1" is in a call.
CanCall(t) ==
    /\ ~Busy(t)
    /\ calls > 0
    /\ AllIdle \/ overlaps < MaxOverlaps
    /\ t = "t2" => Busy("t1")

Enter(t, f) ==
    /\ stack' = PushNew(t, f)
    /\ calls' = calls - 1
    /\ overlaps' = IF AllIdle THEN overlaps ELSE overlaps + 1
    /\ UNCHANGED <<syms, nextSlot, mhandles, imods, mods, modits, boost, nloaded,
                   lockOwner, lockCount, rets, loadSeq, boostRuns, located,
                   ovars>>

\* Loader::locateSymbol(name, data)
CallLocateSymbol(t) ==
    /\ CanCall(t)
    /\ \E n \in Names \ {"p", "f2", "r"}, d \in BOOLEAN : Enter(t, ResolveFrame(n, d))

\* Loader::locate(name, data) on a Loader whose handle_ came from loadLibrary
CallLocate(t) ==
    /\ CanCall(t)
    /\ \E p \in {"a.so", "m.o"}, n \in {"f", "q"}, d \in BOOLEAN :
          Enter(t, [Frame("resolveH", "lock") EXCEPT
                      !.handle = mhandles[p], !.name = n, !.data = d])

\* Loader::Loader(module) / Loader::Loader(object, deps): loadLibrary(path)
CallLoadLibrary(t) ==
    /\ CanCall(t)
    /\ \E p \in {"a.so", "b.so", "m.o", "x.so"} :
          Enter(t, [Frame("loadLibrary", "lock") EXCEPT !.path = p])

\* Loader::cacheSymbol(name, impl)
CallCacheSymbol(t) ==
    /\ CanCall(t)
    /\ \E n \in {"f", "nosuch"} :
          Enter(t, [Frame("cacheSymbol", "body") EXCEPT !.name = n, !.target = 14])

\* Loader::cacheObject(imod)
CallCacheObject(t) ==
    /\ CanCall(t)
    /\ \E o \in Objects : Enter(t, [Frame("cacheObject", "body") EXCEPT !.path = o])

\* Loader::locateModule(addr, update)
CallLocateModule(t) ==
    /\ CanCall(t)
    /\ \E a \in {35, 62}, u \in BOOLEAN :
          Enter(t, [Frame("find", "check") EXCEPT !.addr = a, !.update = u])

\* Loader::executable(vm, iobject)
CallExecutable(t) ==
    /\ CanCall(t)
    /\ \E a \in {62} : Enter(t, [Frame("executable", "body") EXCEPT !.addr = a])

\* Loader::belong(vm)
CallBelong(t) ==
    /\ CanCall(t)
    /\ \E a \in {66} : Enter(t, [Frame("belong", "body") EXCEPT !.addr = a])

-----------------------------------------------------------------------------
(* The guard *)

FirstLockedPc(op) == IF op = "find" THEN "rebuild" ELSE "find"

\* LockGuard lock(this, mutex_): blocks while another thread owns the mutex
LockGuardCtor(t) ==
    /\ Busy(t) /\ Top(t).pc = "lock"
    /\ isMain(t) \/ MutexAvailable(t, Mutex)
    /\ lockOwner' = GuardAcquire(t, Mutex).owner
    /\ lockCount' = GuardAcquire(t, Mutex).count
    /\ stack' = SetTop(t, [Top(t) EXCEPT !.pc = FirstLockedPc(Top(t).op),
                                        !.locked = ~isMain(t)])
    /\ UNCHANGED <<syms, nextSlot, mhandles, imods, mods, modits, boost, nloaded,
                   calls, overlaps, rets, loadSeq, boostRuns, located, ovars>>

\* ~LockGuard at the end of the guarded scope; for every function but find
\* that is the return of the call
LockGuardDtor(t) ==
    /\ Busy(t) /\ Top(t).pc = "unlock"
    /\ lockOwner' = GuardRelease(t, Mutex).owner
    /\ lockCount' = GuardRelease(t, Mutex).count
    /\ IF Top(t).op = "find"
       THEN /\ stack' = SetTop(t, [Top(t) EXCEPT !.pc = "search", !.locked = FALSE])
            /\ rets' = rets
       ELSE /\ stack' = Pop(t, Top(t).ret)
            /\ rets' = IF Top(t).op = "resolve"
                       THEN rets \cup {Log(Top(t), Top(t).ret)}
                       ELSE rets
    /\ UNCHANGED <<syms, nextSlot, mhandles, imods, mods, modits, boost, nloaded,
                   calls, overlaps, loadSeq, boostRuns, located, ovars>>

\* an exception leaves every frame of the thread; each guard on the way is destroyed
RECURSIVE UnwindMutex(_, _, _)
UnwindMutex(t, s, m) ==
    IF s = <<>> THEN m
    ELSE UnwindMutex(t, SubSeq(s, 1, Len(s) - 1),
                     IF s[Len(s)].locked THEN GuardRelease(t, m) ELSE m)

-----------------------------------------------------------------------------
(* ModuleLoader::resolve(name, data) and ModuleLoader::lookup *)

\* found = syms_.find(name); a hit returns, a miss enters lookup
ResolveFind(t) ==
    /\ At(t, "resolve", "find")
    /\ LET f == Top(t)
       IN stack' = SetTop(t,
            IF SymsHas(syms, f.name)
            THEN [f EXCEPT !.pc = "unlock", !.via = "cache",
                           !.ret = SlotRet(syms[f.name], f.data)]
            ELSE [f EXCEPT !.pc = "boost"])
    /\ UNCHANGED <<syms, nextSlot, mhandles, imods, mods, modits, boost, nloaded,
                   lockOwner, lockCount, calls, overlaps, rets, loadSeq, boostRuns,
                   located, ovars>>

\* if (!boost && name.find("boost") != npos)
LookupBoost(t) ==
    /\ At(t, "resolve", "boost")
    /\ stack' = SetTop(t, [Top(t) EXCEPT !.pc =
            IF ~boost /\ IsBoostName(Top(t).name) THEN "boostload" ELSE "search"])
    /\ UNCHANGED <<syms, nextSlot, mhandles, imods, mods, modits, boost, nloaded,
                   lockOwner, lockCount, calls, overlaps, rets, loadSeq, boostRuns,
                   located, ovars>>

\* boost = true; then load_library on every library under ../lib/boost.
\* fs::recursive_directory_iterator throws when the directory cannot be opened.
LookupBoostLoad(t) ==
    /\ At(t, "resolve", "boostload")
    /\ boost' = TRUE
    /\ boostRuns' = boostRuns + 1
    /\ \E dir \in {"missing", "unloadable", "loadable"} :
          IF dir = "missing"
          THEN /\ stack' = [stack EXCEPT ![t] = <<>>]
               /\ lockOwner' = UnwindMutex(t, stack[t], Mutex).owner
               /\ lockCount' = UnwindMutex(t, stack[t], Mutex).count
               /\ rets' = rets \cup {Log(Top(t), RAISED)}
               /\ nloaded' = nloaded
          ELSE /\ stack' = SetTop(t, [Top(t) EXCEPT !.pc = "search"])
               /\ nloaded' = IF dir = "loadable" /\ load_library(BoostLibPath) # NULL
                             THEN nloaded \cup {BoostLibPath} ELSE nloaded
               /\ UNCHANGED <<lockOwner, lockCount, rets>>
    /\ UNCHANGED <<syms, nextSlot, mhandles, imods, mods, modits, calls, overlaps,
                   loadSeq, located, ovars>>

\* the definition of the name in the first registered native library that has one
RECURSIVE FirstLoadedDef(_, _, _)
FirstLoadedDef(ls, n, i) ==
    IF i > Len(ls) THEN NULL
    ELSE IF ls[i] \in NativeLibs /\ NativeExports(ls[i])[n] # NULL
         THEN NativeExports(ls[i])[n]
         ELSE FirstLoadedDef(ls, n, i + 1)

\* the interpreted modules, the module handles, the process table; when all
\* fail, path = RuntimeLib::inst().find(name) and, for a path, loadLibrary(path)
LookupSearch(t) ==
    /\ At(t, "resolve", "search")
    /\ LET f == Top(t)
           tg == LookupTiers(imods, mhandles, f.name)
           path == RuntimeLibFind(f.name)
           g == [f EXCEPT !.via = "search",
                          !.gImod = SearchImods(imods, f.name),
                          !.gFirst = FirstLoadedDef(loadSeq, f.name, 1)]
       IN IF tg # NULL
          THEN stack' = SetTop(t, [g EXCEPT !.target = tg, !.pc = "insert"])
          ELSE IF path = ""
          THEN stack' = SetTop(t, [g EXCEPT !.target = AbortAddr, !.via = "abort",
                                            !.pc = "insert"])
          ELSE stack' = Push(t, [g EXCEPT !.pc = "scoped", !.path = path],
                             [Frame("loadLibrary", "lock") EXCEPT !.path = path])
    /\ UNCHANGED <<syms, nextSlot, mhandles, imods, mods, modits, boost, nloaded,
                   lockOwner, lockCount, calls, overlaps, rets, loadSeq, boostRuns,
                   located, ovars>>

\* target = resolve(handle, name, data) with the handle loadLibrary returned
LookupScoped(t) ==
    /\ At(t, "resolve", "scoped")
    /\ LET f == Top(t)
       IN stack' = Push(t, [f EXCEPT !.pc = "fallback", !.handle = f.ret, !.via = "hash"],
                        [Frame("resolveH", "lock") EXCEPT
                           !.handle = f.ret, !.name = f.name, !.data = f.data])
    /\ UNCHANGED <<syms, nextSlot, mhandles, imods, mods, modits, boost, nloaded,
                   lockOwner, lockCount, calls, overlaps, rets, loadSeq, boostRuns,
                   located, ovars>>

\* syms_.insert({name, target}) and the returned address
InsertAndReturn(t, f) ==
    /\ syms' = SymsInsert(syms, f.name, f.target, nextSlot)
    /\ nextSlot' = SlotAfterInsert(syms, f.name, nextSlot)
    /\ stack' = SetTop(t, [f EXCEPT !.pc = "unlock", !.gImod = NULL, !.gFirst = NULL,
                                    !.ret = SlotRet(syms'[f.name], f.data)])

\* back from the scoped resolve: if (!target) target = &abort; then the insert
LookupFallback(t) ==
    /\ At(t, "resolve", "fallback")
    /\ LET f == Top(t)
       IN InsertAndReturn(t,
            IF f.ret = NULL
            THEN [f EXCEPT !.target = AbortAddr, !.via = "abort"]
            ELSE [f EXCEPT !.target = f.ret])
    /\ UNCHANGED <<mhandles, imods, mods, modits, boost, nloaded,
                   lockOwner, lockCount, calls, overlaps, rets, loadSeq, boostRuns,
                   located, ovars>>

\* newit = syms_.insert({name, target}).first; return data ? &newit->second : newit->second
LookupInsert(t) ==
    /\ At(t, "resolve", "insert")
    /\ InsertAndReturn(t, Top(t))
    /\ UNCHANGED <<mhandles, imods, mods, modits, boost, nloaded,
                   lockOwner, lockCount, calls, overlaps, rets, loadSeq, boostRuns,
                   located, ovars>>

-----------------------------------------------------------------------------
(* ModuleLoader::resolve(handle, name, data) *)

ScopedFind(t) ==
    /\ At(t, "resolveH", "find")
    /\ LET f == Top(t)
       IN stack' = SetTop(t,
            IF SymsHas(syms, f.name)
            THEN [f EXCEPT !.pc = "unlock", !.ret = SlotRet(syms[f.name], f.data)]
            ELSE [f EXCEPT !.pc = "search"])
    /\ UNCHANGED <<syms, nextSlot, mhandles, imods, mods, modits, boost, nloaded,
                   lockOwner, lockCount, calls, overlaps, rets, loadSeq, boostRuns,
                   located, ovars>>

\* the handle's own module, then find_symbol on the handle; null without a cache entry
ScopedSearch(t) ==
    /\ At(t, "resolveH", "search")
    /\ LET f == Top(t)
           tg == ScopedTarget(imods, f.handle, f.name)
       IN IF tg = NULL
          THEN /\ stack' = SetTop(t, [f EXCEPT !.pc = "unlock", !.ret = NULL])
               /\ UNCHANGED <<syms, nextSlot>>
          ELSE /\ syms' = SymsInsert(syms, f.name, tg, nextSlot)
               /\ nextSlot' = SlotAfterInsert(syms, f.name, nextSlot)
               /\ stack' = SetTop(t, [f EXCEPT !.pc = "unlock", !.target = tg,
                                               !.ret = SlotRet(syms'[f.name], f.data)])
    /\ UNCHANGED <<mhandles, imods, mods, modits, boost, nloaded,
                   lockOwner, lockCount, calls, overlaps, rets, loadSeq, boostRuns,
                   located, ovars>>

-----------------------------------------------------------------------------
(* ModuleLoader::loadLibrary *)

\* create_object(path) yields a valid object for the object files of the model
ObjectValid(path) == IsObjectPath(path) /\ path \in Objects

\* mhandles_.find(path); on a miss load_library(path), then the object fallback
LoadFind(t) ==
    /\ At(t, "loadLibrary", "find")
    /\ LET f == Top(t)
           addr == load_library(f.path)
       IN IF mhandles[f.path] # NULL
          THEN /\ stack' = SetTop(t, [f EXCEPT !.pc = "unlock", !.ret = mhandles[f.path]])
               /\ nloaded' = nloaded
          ELSE IF addr # NULL
          THEN /\ stack' = SetTop(t, [f EXCEPT !.pc = "insert", !.target = addr])
               /\ nloaded' = nloaded \cup {f.path}
          ELSE IF ObjectValid(f.path)
          THEN /\ stack' = SetTop(t, [f EXCEPT !.pc = "create", !.addr = 1])
               /\ nloaded' = nloaded
          ELSE /\ stack' = SetTop(t, [f EXCEPT !.pc = "unlock", !.ret = NULL])
               /\ nloaded' = nloaded
    /\ UNCHANGED <<syms, nextSlot, mhandles, imods, mods, modits, boost,
                   lockOwner, lockCount, calls, overlaps, rets, loadSeq, boostRuns,
                   located, ovars>>

\* create_object decodes the object: every relocation against an undefined
\* symbol calls Loader::locateSymbol; then init_library(object) runs the
\* constructors and calls Loader::cacheObject
LoadCreate(t) ==
    /\ At(t, "loadLibrary", "create")
    /\ LET f == Top(t)
           und == ObjUndefined(f.path)
       IN IF f.addr > Len(und)
          THEN stack' = Push(t, [f EXCEPT !.pc = "insert", !.target = HandleOf(f.path)],
                             [Frame("cacheObject", "body") EXCEPT !.path = f.path])
          ELSE stack' = Push(t, [f EXCEPT !.addr = f.addr + 1],
                             ResolveFrame(und[f.addr], FALSE))
    /\ UNCHANGED <<syms, nextSlot, mhandles, imods, mods, modits, boost, nloaded,
                   lockOwner, lockCount, calls, overlaps, rets, loadSeq, boostRuns,
                   located, ovars>>

\* found = mhandles_.insert({path, addr}).first; return found->second
LoadInsert(t) ==
    /\ At(t, "loadLibrary", "insert")
    /\ LET f == Top(t)
       IN /\ mhandles' = HandlesInsert(mhandles, f.path, f.target)
          /\ loadSeq' = IF mhandles[f.path] = NULL THEN Append(loadSeq, f.path) ELSE loadSeq
          /\ stack' = SetTop(t, [f EXCEPT !.pc = "unlock", !.ret = mhandles'[f.path]])
    /\ UNCHANGED <<syms, nextSlot, imods, mods, modits, boost, nloaded,
                   lockOwner, lockCount, calls, overlaps, rets, boostRuns,
                   located, ovars>>

-----------------------------------------------------------------------------
(* The operations that take no guard *)

\* ModuleLoader::cacheObject
CacheObjectBody(t) ==
    /\ At(t, "cacheObject", "body")
    /\ LET f == Top(t)
       IN IF mhandles[f.path] # NULL
          THEN UNCHANGED <<imods, mhandles, loadSeq>>
          ELSE /\ imods' = Append(imods, f.path)
               /\ mhandles' = HandlesInsert(mhandles, f.path, HandleOf(f.path))
               /\ loadSeq' = Append(loadSeq, f.path)
    /\ stack' = Pop(t, Top(t).ret)
    /\ UNCHANGED <<syms, nextSlot, mods, modits, boost, nloaded,
                   lockOwner, lockCount, calls, overlaps, rets, boostRuns,
                   located, ovars>>

\* ModuleLoader::cacheSymbol
CacheSymbolBody(t) ==
    /\ At(t, "cacheSymbol", "body")
    /\ syms' = SymsInsert(syms, Top(t).name, Top(t).target, nextSlot)
    /\ nextSlot' = SlotAfterInsert(syms, Top(t).name, nextSlot)
    /\ stack' = Pop(t, Top(t).ret)
    /\ UNCHANGED <<mhandles, imods, mods, modits, boost, nloaded,
                   lockOwner, lockCount, calls, overlaps, rets, loadSeq, boostRuns,
                   located, ovars>>

\* ModuleLoader::executable
ExecutableBody(t) ==
    /\ At(t, "executable", "body")
    /\ stack' = Pop(t, IF \E i \in 1..Len(imods) : ObjExecutable(imods[i], Top(t).addr)
                       THEN 1 ELSE 0)
    /\ UNCHANGED <<syms, nextSlot, mhandles, imods, mods, modits, boost, nloaded,
                   lockOwner, lockCount, calls, overlaps, rets, loadSeq, boostRuns,
                   located, ovars>>

\* ModuleLoader::belong
BelongBody(t) ==
    /\ At(t, "belong", "body")
    /\ stack' = Pop(t, IF \E i \in 1..Len(imods) : ObjBelong(imods[i], Top(t).addr)
                       THEN 1 ELSE 0)
    /\ UNCHANGED <<syms, nextSlot, mhandles, imods, mods, modits, boost, nloaded,
                   lockOwner, lockCount, calls, overlaps, rets, loadSeq, boostRuns,
                   located, ovars>>

-----------------------------------------------------------------------------
(* ModuleLoader::find *)

\* if (mods_.size() == 0 || update): the test is made before the guard is taken
FindCheck(t) ==
    /\ At(t, "find", "check")
    /\ stack' = SetTop(t, [Top(t) EXCEPT !.pc =
            IF mods = {} \/ Top(t).update THEN "lock" ELSE "search"])
    /\ UNCHANGED <<syms, nextSlot, mhandles, imods, mods, modits, boost, nloaded,
                   lockOwner, lockCount, calls, overlaps, rets, loadSeq, boostRuns,
                   located, ovars>>

\* iterate_modules fills mods_; modits_ is cleared and refilled from mods_
FindRebuild(t) ==
    /\ At(t, "find", "rebuild")
    /\ mods' = ModsInsertAll(mods, EnvModules(nloaded))
    /\ modits' = SortedMods(mods')
    /\ stack' = SetTop(t, [Top(t) EXCEPT !.pc = "unlock"])
    /\ UNCHANGED <<syms, nextSlot, mhandles, imods, boost, nloaded,
                   lockOwner, lockCount, calls, overlaps, rets, loadSeq, boostRuns,
                   located, ovars>>

\* the interpreted objects first, then the binary search; outside the guard
FindSearch(t) ==
    /\ At(t, "find", "search")
    /\ located' = FindModule(imods, modits, Top(t).addr)
    /\ faddr' = Top(t).addr
    /\ stack' = Pop(t, NULL)
    /\ UNCHANGED <<objVars, session, cmd, relsym>>
    /\ UNCHANGED <<syms, nextSlot, mhandles, imods, mods, modits, boost, nloaded,
                   lockOwner, lockCount, calls, overlaps, rets, loadSeq, boostRuns>>

-----------------------------------------------------------------------------
(* The specification *)

Step(t) ==
    \/ CallLocateSymbol(t)
    \/ CallLocate(t)
    \/ CallLoadLibrary(t)
    \/ CallCacheSymbol(t)
    \/ CallCacheObject(t)
    \/ CallLocateModule(t)
    \/ CallExecutable(t)
    \/ CallBelong(t)
    \/ LockGuardCtor(t)
    \/ LockGuardDtor(t)
    \/ ResolveFind(t)
    \/ LookupBoost(t)
    \/ LookupBoostLoad(t)
    \/ LookupSearch(t)
    \/ LookupScoped(t)
    \/ LookupFallback(t)
    \/ LookupInsert(t)
    \/ ScopedFind(t)
    \/ ScopedSearch(t)
    \/ LoadFind(t)
    \/ LoadCreate(t)
    \/ LoadInsert(t)
    \/ CacheObjectBody(t)
    \/ CacheSymbolBody(t)
    \/ ExecutableBody(t)
    \/ BelongBody(t)
    \/ FindCheck(t)
    \/ FindRebuild(t)
    \/ FindSearch(t)

Next == \E t \in Threads : Step(t)

\* Loader::locateSymbol(name, data) for the names that only a library of the
\* symbol hash index defines, and for one that nothing defines
CallLocateIndexed(t) ==
    /\ CanCall(t)
    /\ \E n \in {"q", "r", "nosuch"}, d \in BOOLEAN : Enter(t, ResolveFrame(n, d))

\* the main thread resolving such names, one call after the other
IndexNext ==
    \/ CallLocateIndexed(MainThread)
    \/ LockGuardCtor(MainThread)
    \/ LockGuardDtor(MainThread)
    \/ ResolveFind(MainThread)
    \/ LookupBoost(MainThread)
    \/ LookupSearch(MainThread)
    \/ LookupScoped(MainThread)
    \/ LookupFallback(MainThread)
    \/ LookupInsert(MainThread)
    \/ ScopedFind(MainThread)
    \/ ScopedSearch(MainThread)
    \/ LoadFind(MainThread)
    \/ LoadCreate(MainThread)
    \/ LoadInsert(MainThread)
    \/ CacheObjectBody(MainThread)

IndexSpec == Init /\ [][IndexNext]_vars

-----------------------------------------------------------------------------
(* Relocation addends, and the relocation of data sections. An int is its
   value. A 64-bit unsigned quantity u (an offset, an address) is written as
   its two's complement reading: u below 2^63, u - 2^64 from there on; sums
   and differences of the small quantities used here are then the ordinary
   ones, and only the comparison differs. A 32-bit unsigned quantity is
   written the same way, with sums that wrap at 2^32. *)

\* the range of the int RelocSymbol::addend
INT_MAX == 2147483647
INT_MIN == (-INT_MAX) - 1

\* u > v on uint64_t
UGreater(u, v) == IF (u < 0) = (v < 0) THEN u > v ELSE u < 0

\* static_cast<uint32_t>(x + y) and static_cast<uint32_t>(x - y)
Add32(x, y) ==
    IF x > 0 /\ y > 0 /\ x > INT_MAX - y
    THEN ((x - INT_MAX) - 1) + ((y - INT_MAX) - 1)
    ELSE IF x < 0 /\ y < 0 /\ x < INT_MIN - y
    THEN ((x + INT_MAX) + 1) + ((y + INT_MAX) + 1)
    ELSE x + y

Sub32(x, y) ==
    IF x < 0 /\ y > 0 /\ x < INT_MIN + y
    THEN ((x + INT_MAX) + 1) + ((INT_MAX - y) + 1)
    ELSE IF x >= 0 /\ y < 0 /\ x > INT_MAX + y
    THEN ((x - INT_MAX) - 1) - ((y + INT_MAX) + 1)
    ELSE x - y

\* the little-endian bytes of a 32-bit and of a 64-bit quantity
Bytes4(d) == [i \in 0..3 |-> (d \div (256 ^ i)) % 256]

Bytes8(d) == [i \in 0..7 |-> IF i < 4 THEN (d \div (256 ^ i)) % 256
                             ELSE IF d < 0 THEN 255 ELSE 0]

\* the raw addends r_addend of the relocations of a text section, and of a
\* data section
RawAddends == {INT_MIN, -6, -5, -4, -3, 0, 8, INT_MAX - 4, INT_MAX - 3, INT_MAX}

DataAddends == {INT_MIN, -4, 0, 8}

\* addend += 4 on an int. Where the sum is not representable the behaviour is
\* undefined: a build wraps it, or traps
AddFour(a) ==
    IF a <= INT_MAX - 4
    THEN {[trap |-> FALSE, val |-> a + 4]}
    ELSE {[trap |-> FALSE, val |-> (a - INT_MAX) - (INT_MAX - 2)],
          [trap |-> TRUE, val |-> a]}

\* the addend reloc_symbols keeps for a relocation of an ELF text section
TextAddend(arch, a) ==
    IF arch = "X86_64"
    THEN IF a < -4 THEN {[trap |-> FALSE, val |-> 0]} ELSE AddFour(a)
    ELSE {[trap |-> FALSE, val |-> a]}

\* the relocation types of a format and architecture: the ones relocate_data
\* has a case for, and one of the others
RelocTypes(fmt, arch) ==
    CASE fmt = "ELF" /\ arch = "X86_64" -> {"R_X86_64_PC32", "R_X86_64_64"}
      [] fmt = "ELF" /\ arch = "AArch64" -> {"R_AARCH64_ABS64"}
      [] fmt = "COFF" /\ arch = "X86_64" ->
            {"IMAGE_REL_AMD64_REL32", "IMAGE_REL_AMD64_ADDR32NB",
             "IMAGE_REL_AMD64_ADDR64"}
      [] fmt = "COFF" /\ arch = "AArch64" ->
            {"IMAGE_REL_ARM64_ADDR32NB", "IMAGE_REL_ARM64_ADDR64"}
      [] fmt = "MachO" /\ arch = "X86_64" -> {"X86_64_RELOC_UNSIGNED"}
      [] fmt = "MachO" /\ arch = "AArch64" -> {"ARM64_RELOC_UNSIGNED"}

\* the symbol a relocation names: undefined, or defined in a text or in a
\* data section of the object at one of these offsets
SymFlags == {"SF_Undefined", "text", "data"}

SymOffs == {0, 16}

\* reloc_symbols gathers a relocation of an ELF text section
reloc_symbols ==
    /\ relsym.pc = "none"
    /\ \E arch \in {"X86_64", "AArch64"}, a \in RawAddends,
          sf \in SymFlags :
          \E r \in TextAddend(arch, a) :
             relsym' = [relsym EXCEPT
                          !.pc = IF r.trap THEN "trap" ELSE "text",
                          !.fmt = "ELF", !.arch = arch, !.sflags = sf,
                          !.rtype = IF arch = "X86_64" THEN "R_X86_64_PC32"
                                    ELSE "R_AARCH64_ABS64",
                          !.raw = a, !.addend = r.val]
    /\ UNCHANGED <<loaderVars, faddr, objVars, session, cmd>>

\* parseSections gathers a relocation of a data section: r_addend for ELF,
\* the default of RelocSymbol otherwise
parseSections ==
    /\ relsym.pc = "none"
    /\ \E fmt \in {"ELF", "COFF", "MachO"}, arch \in {"X86_64", "AArch64"} :
       \E rt \in RelocTypes(fmt, arch), sf \in SymFlags, so \in SymOffs,
          a \in DataAddends :
          /\ fmt # "ELF" => a = 0
          /\ sf = "SF_Undefined" => so = 0
          /\ relsym' = [relsym EXCEPT
                          !.pc = "data", !.fmt = fmt, !.arch = arch,
                          !.rtype = rt, !.sflags = sf, !.symoff = so,
                          !.raw = a, !.addend = a]
    /\ UNCHANGED <<loaderVars, faddr, objVars, session, cmd>>

\* the section being relocated: content.data(), the sizes it may have, and
\* the offsets of the relocation: a 64-bit r_offset for ELF, where the last
\* values of uint64_t are offsets as any other, a 32-bit one otherwise
ContentData == 4096

Sizes == {8, 12}

Offsets == {-8, -4, 0, 4, 8, 12}

\* the memory around content.data(), by displacement from it
Window == (-8)..19

\* the static addends a COFF object holds at the site
InPlace == {-8, 0, 8}

\* expContent->data() of the section that defines a local symbol, and what
\* locateSymbol returns for an undefined one
TargetData == 8192

ExternAddr == 12288

\* the memory before relocation: the in-place addend at the site of a COFF
\* relocation, zero elsewhere
Content(r) ==
    [i \in Window |->
        IF r.fmt = "COFF" /\ i \in r.offset..(r.offset + 3)
        THEN Bytes4(r.inplace)[i - r.offset] ELSE 0]

\* *reinterpret_cast<uint32_t *>(p), read as an int
Read4(mem, off) ==
    mem[off] + 256 * mem[off + 1] + 65536 * mem[off + 2]
      + 16777216 * (IF mem[off + 3] >= 128 THEN mem[off + 3] - 256
                    ELSE mem[off + 3])

Store(mem, off, bytes, n) ==
    [i \in Window |-> IF i \in off..(off + n - 1) THEN bytes[i - off] ELSE mem[i]]

\* target of relocate_data: the address bound for an undefined symbol, the
\* symbol's place in its section plus the addend for a local one
Target(r) ==
    IF r.sflags = "SF_Undefined" THEN ExternAddr
    ELSE TargetData + r.symoff + r.addend

\* the range checks of relocate_data, on uint64_t
OutOfRange(offset, n, size) == UGreater(offset + n, size)

\* relocate_data for the record r and the memory mem, as the set of its
\* outcomes: the memory after it, the displacements stored to, whether it
\* warned, the spot returned. The COFF relative relocation reads its addend
\* before the range check: past the section's end the read is of memory that
\* is not the section's, and either yields a value that is not used or faults.
relocate_data(r, mem) ==
    LET site == ContentData + r.offset
        quiet == [mem |-> mem, wrote |-> {}, warned |-> FALSE, spot |-> 0,
                  fault |-> FALSE]
        warn == [quiet EXCEPT !.warned = TRUE]
        store(bytes, n, spot) ==
            [mem |-> Store(mem, r.offset, bytes, n),
             wrote |-> r.offset..(r.offset + n - 1),
             warned |-> FALSE, spot |-> spot, fault |-> FALSE]
    IN  CASE r.rtype = "R_X86_64_PC32" ->
               IF OutOfRange(r.offset, 4, r.size) THEN {warn}
               ELSE {store(Bytes4(Sub32(Target(r), site)), 4, 0)}
          [] r.rtype = "IMAGE_REL_AMD64_REL32" ->
               IF OutOfRange(r.offset, 4, r.size)
               THEN {warn, [quiet EXCEPT !.fault = TRUE]}
               ELSE {store(Bytes4(Sub32(Sub32(Add32(Target(r),
                                                    Read4(mem, r.offset)),
                                              site), 4)), 4, 0)}
          [] r.rtype \in {"IMAGE_REL_AMD64_ADDR32NB",
                          "IMAGE_REL_ARM64_ADDR32NB"} -> {quiet}
          [] OTHER ->
               IF OutOfRange(r.offset, 8, r.size) THEN {warn}
               ELSE {store(Bytes8(Target(r)), 8,
                           IF r.sflags = "text" THEN site ELSE 0)}

\* Object::relocateData: relocate_data, and the stub spot it may record
relocateData ==
    /\ relsym.pc = "data"
    /\ \E offset \in Offsets, size \in Sizes, ip \in InPlace :
          /\ relsym.rtype # "IMAGE_REL_AMD64_REL32" => ip = 0
          /\ relsym.fmt # "ELF" => offset >= 0
          /\ \E r \in {[relsym EXCEPT !.offset = offset, !.size = size,
                                      !.inplace = ip]} :
             \E res \in relocate_data(r, Content(r)) :
                relsym' = [r EXCEPT
                             !.pc = IF res.fault THEN "fault" ELSE "done",
                             !.mem = res.mem,
                             !.wrote = res.wrote,
                             !.warned = res.warned,
                             !.stubspots =
                                IF res.spot # 0
                                THEN Append(@, [offset |-> offset,
                                                spot |-> res.spot])
                                ELSE @]
    /\ UNCHANGED <<loaderVars, faddr, objVars, session, cmd>>

RelocNext ==
    \/ reloc_symbols
    \/ parseSections
    \/ relocateData

RelocSpec == Init /\ [][RelocNext]_vars

-----------------------------------------------------------------------------
(* icpp_main: the command line of the interpreter. argv[0] of C is argv[1]
   here; a C index i is the position i + 1. *)

\* the tokens of the command lines: an executable that exists, the double
\* dash, an option taking a value, an option that returns at once, two words
\* that name no file
Tokens == {"prog", "--", "-lz", "-v", "a1", "a2"}

MaxArgs == 4

RECURSIVE TokenSeqs(_)
TokenSeqs(n) ==
    IF n = 0 THEN {<<>>}
    ELSE LET shorter == TokenSeqs(n - 1)
         IN shorter \cup {Append(q, u) : q \in {x \in shorter : Len(x) = n - 1},
                                         u \in Tokens}

\* fs::exists(fs::path(sp))
FileExists(tok) == tok = "prog"

\* idoubledash: the C index of the first "--", argc when there is none
IDoubleDash(av) ==
    LET hit == {i \in 0..(Len(av) - 1) : av[i + 1] = "--"}
    IN IF hit = {} THEN Len(av) ELSE CHOOSE i \in hit : \A j \in hit : i <= j

\* args = std::span{argv + 1, idoubledash - 1}
ArgsOf(av) == SubSeq(av, 2, IDoubleDash(av))

\* the option loop: the return value of an option that ends icpp_main, -1
\* when the loop runs to its end, and the library options collected
RECURSIVE ParseOptions(_, _, _)
ParseOptions(args, i, opts) ==
    IF i > Len(args) THEN [ret |-> -1, opts |-> opts]
    ELSE IF args[i] = "-v" THEN [ret |-> 0, opts |-> opts]
    ELSE IF args[i] = "-lz" THEN ParseOptions(args, i + 1, Append(opts, "z"))
    ELSE ParseOptions(args, i + 1, opts)

\* the exec_main calls of the second loop, with the count and the C index of
\* the pointer they are given
RECURSIVE ExecMains(_, _, _)
ExecMains(av, args, i) ==
    IF i > Len(args) THEN <<>>
    ELSE IF args[i] \in {"--", "-lz", "-v"} \/ ~FileExists(args[i])
    THEN ExecMains(av, args, i + 1)
    ELSE <<[path |-> args[i], iargc |-> IDoubleDash(av) - Len(av),
            iargv |-> IDoubleDash(av) + 1]>> \o ExecMains(av, args, i + 1)

\* exec_main: the interpreted main gets the path, then the iargc - 1 strings
\* iargv points to
ProgramArgv(av, run) ==
    <<run.path>> \o
    [j \in 1..(IF run.iargc > 1 THEN run.iargc - 1 ELSE 0) |-> av[run.iargv + j]]

\* the shell starts icpp
Invoke ==
    /\ cmd.pc = "none"
    /\ \E q \in TokenSeqs(MaxArgs) :
          cmd' = [cmd EXCEPT !.pc = "main", !.argv = <<"icpp">> \o q]
    /\ UNCHANGED <<loaderVars, faddr, objVars, session, relsym>>

\* icpp_main(argc, argv)
IcppMain ==
    /\ cmd.pc = "main"
    /\ \E po \in {ParseOptions(ArgsOf(cmd.argv), 1, <<>>)} :
          cmd' = [cmd EXCEPT
                    !.pc = "done",
                    !.ret = IF po.ret = -1 THEN 0 ELSE po.ret,
                    !.opts = po.opts,
                    !.runs = IF po.ret = -1
                             THEN ExecMains(cmd.argv, ArgsOf(cmd.argv), 1)
                             ELSE <<>>]
    /\ UNCHANGED <<loaderVars, faddr, objVars, session, relsym>>

ArgNext ==
    \/ Invoke
    \/ IcppMain

ArgSpec == Init /\ [][ArgNext]_vars

-----------------------------------------------------------------------------
(* The end of the session: Loader::deinitialize(exitcode) on the objects the
   session loaded. imods_ holds the only shared_ptr to each of them once
   loadLibrary returned. *)

\* the object's file buffer is an interpretable-object container: fbuf_ of an
\* InterpObject is the container file itself
IsContainer(o) == o \in {"m.io"}

\* Object::isCache
isCache(o) == IsContainer(o)

\* the exit codes a session ends with
ExitCodes == {0, 1, -1}

\* generateCache's Loader::locateModule("", true): the module list is rebuilt
Regenerated(any) ==
    IF any
    THEN \E ms \in {ModsInsertAll(mods, EnvModules(nloaded))} :
         \E its \in {SortedMods(ms)} :
            /\ mods' = ms
            /\ modits' = its
            /\ located' = FindModule(imods, its, NULL)
    ELSE UNCHANGED <<mods, modits, located>>

\* loadLibrary of an object file: create_object, init_library and its
\* Loader::cacheObject, then mhandles_.insert
SessionLoad ==
    /\ session.phase = "running"
    /\ \E o \in SessionObjects :
         /\ mhandles[o] = NULL
         /\ imods' = Append(imods, o)
         /\ mhandles' = HandlesInsert(mhandles, o, HandleOf(o))
         /\ loadSeq' = Append(loadSeq, o)
         /\ session' = [session EXCEPT !.loaded = @ \cup {o}]
    /\ UNCHANGED <<syms, nextSlot, mods, modits, boost, nloaded, lockOwner,
                   lockCount, stack, calls, overlaps, rets, located, boostRuns,
                   faddr, objVars, cmd, relsym>>

\* Loader::deinitialize(exitcode) enters cacheAndClean: if (!exitcode) the loop
Deinitialize ==
    /\ session.phase = "running"
    /\ \E code \in ExitCodes :
         session' = [session EXCEPT !.phase = IF code = 0 THEN "loop" ELSE "clear",
                                    !.exitcode = code, !.i = 1]
    /\ UNCHANGED <<loaderVars, faddr, objVars, cmd, relsym>>

\* for (auto io : imods_): if (io->isCache()) continue; io->generateCache()
CacheLoop ==
    /\ session.phase = "loop"
    /\ IF session.i > Len(imods)
       THEN /\ session' = [session EXCEPT !.phase = "clear"]
            /\ Regenerated(FALSE)
       ELSE /\ session' =
                 [session EXCEPT !.i = @ + 1,
                                 !.gens[imods[session.i]] =
                                     IF isCache(imods[session.i]) THEN @ ELSE @ + 1]
            /\ Regenerated(~isCache(imods[session.i]))
    /\ UNCHANGED <<syms, nextSlot, mhandles, imods, boost, nloaded, lockOwner,
                   lockCount, stack, calls, overlaps, rets, loadSeq, boostRuns,
                   faddr, objVars, cmd, relsym>>

\* imods_.clear(): the last reference to each object goes, ~Object runs and
\* calls generateCache unless the file buffer starts with iobj_magic
ImodsClear ==
    /\ session.phase = "clear"
    /\ imods' = <<>>
    /\ session' =
         [session EXCEPT
            !.phase = "ended",
            !.gens = [o \in SessionObjects |->
                        IF (\E k \in 1..Len(imods) : imods[k] = o) /\ ~IsContainer(o)
                        THEN @[o] + 1 ELSE @[o]]]
    /\ Regenerated(\E k \in 1..Len(imods) : ~IsContainer(imods[k]))
    /\ UNCHANGED <<syms, nextSlot, mhandles, boost, nloaded, lockOwner,
                   lockCount, stack, calls, overlaps, rets, loadSeq, boostRuns,
                   faddr, objVars, cmd, relsym>>

EndNext ==
    \/ SessionLoad
    \/ Deinitialize
    \/ CacheLoop
    \/ ImodsClear

EndSpec == Init /\ [][EndNext]_vars

Spec == Init /\ [][Next]_vars

\* every thread keeps running, and a thread blocked on the mutex gets it once
\* it stays free: the platform's scheduler and std::recursive_mutex
FairSpec == FairInit /\ [][Next]_vars /\ \A t \in Threads : WF_vars(Step(t))

-----------------------------------------------------------------------------
(* ModuleLoader::find as a function of the process's module list: whole calls
   of locateModule by the main thread, over the module lists a process can
   have when the constructor's load of libc++ succeeded or failed and further
   libraries were mapped *)

\* addresses given to locateModule
FindAddrs == {5, 10, 15, 20, 25, 35, 45, 55, 62, 75}

FindInit ==
    \E libs \in SUBSET NativeLibs, ims \in {<<>>, <<"m.o">>} :
        /\ syms = SeededSyms(Names)
        /\ nextSlot = SlotBase + 2
        /\ nloaded = libs
        /\ imods = ims
        /\ mhandles = [p \in Paths |->
                         IF p \in libs \/ (p = "m.o" /\ ims # <<>>)
                         THEN HandleOf(p) ELSE NULL]
        /\ loadSeq = SelectSeq(PathOrder, LAMBDA p : p \in libs)
        /\ mods = {}
        /\ modits = <<>>
        /\ boost = FALSE
        /\ lockOwner = NoThread
        /\ lockCount = 0
        /\ stack = [t \in Threads |-> <<>>]
        /\ calls = 0
        /\ overlaps = 0
        /\ rets = {}
        /\ boostRuns = 0
        /\ located = ""
        /\ NoFind
        /\ NoObject

\* one call of find(addr, update) on the main thread, start to return
FindApply ==
    \E a \in FindAddrs, u \in BOOLEAN :
        LET rebuilt == mods = {} \/ u
            ms == IF rebuilt THEN ModsInsertAll(mods, EnvModules(nloaded)) ELSE mods
            its == IF rebuilt THEN SortedMods(ms) ELSE modits
        IN /\ mods' = ms
           /\ modits' = its
           /\ located' = FindModule(imods, its, a)
           /\ faddr' = a
           /\ UNCHANGED <<objVars, session, cmd, relsym>>
           /\ UNCHANGED <<syms, nextSlot, mhandles, imods, boost, nloaded,
                          lockOwner, lockCount, stack, calls, overlaps, rets,
                          loadSeq, boostRuns>>

FindNext == FindApply

FindSpec == FindInit /\ [][FindNext]_vars

-----------------------------------------------------------------------------
(* Object::decodeInsns over one text section *)

INSN_ABORT == "abort"
INSN_HARDWARE == "hardware"
INSN_NORMAL == "normal"

\* a decoder bug the check of the loop's progress must notice: one byte skipped
\* on every architecture
SkipOneByte(arch) == 1

\* int skipsz = arch_ == AArch64 ? 4 : 1
skipsz(arch) == IF arch = AArch64 THEN 4 ELSE 1

\* The two getInstruction calls of one iteration: the status switched on, the
\* composite size, and what inst holds afterwards (a failed call leaves it)
Decoded(tx, tail, off, stale) ==
    LET d1 == DisAsm(tx, tail, off)
        i1 == IF d1.st = "fail" THEN stale ELSE d1.id
        merge == tx.arch = X86_64 /\ prefix_inst(i1)
        d2 == DisAsm(tx, tail, off + d1.size)
    IN [st |-> IF merge THEN d2.st ELSE d1.st,
        size |-> IF merge THEN d1.size + d2.size ELSE d1.size,
        inst |-> IF merge /\ d2.st # "fail" THEN d2.id ELSE i1]

\* iinfo.len per status
LenZeroOnFail(arch, d) == IF d.st = "ok" THEN d.size ELSE 0
InsnLen(arch, d) ==
    CASE d.st = "fail" -> skipsz(arch)
      [] d.st = "soft" -> IF d.size # 0 THEN d.size ELSE skipsz(arch)
      [] OTHER -> d.size

\* parseInstX64 / parseInstAArch64: the type of a decoded instruction
InsnType(i) == IF Unit[i].hw THEN INSN_HARDWARE ELSE INSN_NORMAL

\* the relocation site an instruction covers: at its own rva on AArch64, the
\* first of rva + 1 .. rva + len - 4 otherwise
FoundRsym(tx, rva, len) ==
    IF tx.arch = AArch64 THEN RsymAt(tx, rva - tx.frva)
    ELSE LET hit == {i \in 1..(len - 4) : RsymAt(tx, rva - tx.frva + i) # ""}
         IN IF hit = {} THEN ""
            ELSE RsymAt(tx, rva - tx.frva + CHOOSE i \in hit : \A j \in hit : i <= j)

\* Loader::locateSymbol as the decoder calls it, for names that are neither
\* boost symbols nor in the hash index: the target cached under the name
LocateTarget(n) ==
    LET tg == LookupTiers(imods, mhandles, n)
    IN IF tg # NULL THEN tg ELSE AbortAddr

LocateSyms(s, k, n) == SymsInsert(s, n, LocateTarget(n), k)

\* a local relocation: the dynamic section's buffer when the symbol's section
\* is one, the section's file content otherwise
LocalFromFile(rs) == SectContent(rs.sect) + rs.symaddr - SectAddress(rs.sect) + rs.addend
LocalTarget(rs) ==
    LET symoff == rs.symaddr - SectAddress(rs.sect) + rs.addend
        ds == {i \in 1..Len(dynsects) : dynsects[i].index = rs.sect}
    IN IF ds # {}
       THEN dynsects[CHOOSE i \in ds : \A j \in ds : i <= j].buffer + symoff
       ELSE SectContent(rs.sect) + symoff

\* the first record of irelocs_ with this target and type, 0 when there is none
RelocMatch(irs, target, type) ==
    LET hit == {i \in 1..Len(irs) : irs[i].target = target /\ irs[i].type = type}
    IN IF hit = {} THEN 0 ELSE CHOOSE i \in hit : \A j \in hit : i <= j

\* the COFF AArch64 rewrite of a matched record
CoffFix(tx, rs) ==
    tx.arch = AArch64 /\ tx.fmt = "COFF" /\ rs.undef /\ rs.rtype = "pageoff12l"

\* the relocation part of an iteration for the site r: the symbol cache, the
\* next cache node, irelocs_ and the index stored in the instruction record
Relocated(tx, r, s, k, irs) ==
    LET rs == Rsym(r)
        symtype == reloc_symtype(tx.arch, tx.fmt, rs)
        syms1 == IF rs.undef THEN LocateSyms(s, k, rs.name) ELSE s
        next1 == IF rs.undef THEN SlotAfterInsert(s, rs.name, k) ELSE k
        rtaddr == IF rs.undef THEN SlotRet(syms1[rs.name], symtype = ST_Data)
                  ELSE LocalTarget(rs)
        m == RelocMatch(irs, rtaddr, symtype)
    IN [syms |-> syms1,
        next |-> next1,
        relocs |->
            IF m = 0
            THEN Append(irs, [name |-> rs.name, target |-> rtaddr, type |-> symtype])
            ELSE IF CoffFix(tx, rs)
            THEN [irs EXCEPT ![m] = [@ EXCEPT !.target = SlotRet(syms1[rs.name], TRUE),
                                               !.type = ST_Data]]
            ELSE irs,
        reloc |-> IF m = 0 THEN Len(irs) ELSE m - 1]

\* one iteration of the decode loop
DecodeStep ==
    /\ ophase = "decode"
    /\ opc < TextSize(text)
    /\ \E tail \in TailsOf(text.arch) :
       \E d \in {Decoded(text, tail, opc, inst)} :
       \E len \in {InsnLen(text.arch, d)} :
       \E r \in {IF d.st = "ok" THEN FoundRsym(text, text.frva + opc, len) ELSE ""} :
       \E rel \in {IF r # "" THEN Relocated(text, r, syms, nextSlot, irelocs)
                   ELSE [syms |-> syms, next |-> nextSlot, relocs |-> irelocs,
                         reloc |-> 0]} :
       \E key \in {RawBytes(text, tail, opc, len)} :
         LET type == IF d.st = "ok" THEN InsnType(d.inst) ELSE INSN_ABORT
         IN /\ syms' = rel.syms
            /\ nextSlot' = rel.next
            /\ irelocs' = rel.relocs
            /\ idecinfs' =
                 IF d.st = "ok" /\ type # INSN_HARDWARE
                    /\ ~\E e \in idecinfs : e.key = key
                 THEN idecinfs \cup {[key |-> key, enc |-> Unit[d.inst].enc]}
                 ELSE idecinfs
            /\ iinfs' = Append(iinfs, [rva |-> text.frva + opc, len |-> len,
                                       type |-> type,
                                       rflag |-> IF r # "" THEN 1 ELSE 0,
                                       reloc |-> rel.reloc])
            /\ opc' = opc + len
            /\ inst' = d.inst
    /\ UNCHANGED <<text, ophase, faddr, session, cmd, relsym, iquery, cache, lobj>>
    /\ UNCHANGED <<mhandles, imods, mods, modits, boost, nloaded, lockOwner,
                   lockCount, stack, calls, overlaps, rets, located, loadSeq,
                   boostRuns>>

\* opc < opcend fails: the section is decoded
DecodeDone ==
    /\ ophase = "decode"
    /\ opc >= TextSize(text)
    /\ ophase' = "decoded"
    /\ UNCHANGED <<text, opc, inst, iinfs, irelocs, idecinfs, iquery, cache, lobj,
                   faddr, session, cmd, relsym, loaderVars>>

\* the libraries the process has loaded when an object is decoded
ObjLibs == {LibCxxPath, "a.so", "b.so"}

\* the process an object is parsed in: the runtime libraries loaded, nothing
\* resolved yet beyond the seeded names, no thread inside the loader
ObjProcess ==
    /\ syms = SeededSyms(Names)
    /\ nextSlot = SlotBase + 2
    /\ nloaded = ObjLibs
    /\ imods = <<>>
    /\ mhandles = [p \in Paths |-> IF p \in ObjLibs THEN HandleOf(p) ELSE NULL]
    /\ loadSeq = SelectSeq(PathOrder, LAMBDA p : p \in ObjLibs)
    /\ mods = {}
    /\ modits = <<>>
    /\ boost = FALSE
    /\ lockOwner = NoThread
    /\ lockCount = 0
    /\ stack = [t \in Threads |-> <<>>]
    /\ calls = 0
    /\ overlaps = 0
    /\ rets = {}
    /\ boostRuns = 0
    /\ located = ""
    /\ NoFind
    /\ iquery = <<>>
    /\ cache = <<>>
    /\ lobj = <<>>
    /\ session = NoSession
    /\ cmd = NoCmd
    /\ relsym = NoRelSym
    /\ opc = 0
    /\ inst = ""
    /\ iinfs = <<>>
    /\ irelocs = <<>>
    /\ idecinfs = {}

\* a text section of an object, about to be decoded
ObjInit ==
    /\ ObjProcess
    /\ text \in Texts
    /\ ophase = "decode"

\* before the object file's sections are parsed
FileInit ==
    /\ ObjProcess
    /\ text = [arch |-> "", fmt |-> "", frva |-> 0, units |-> <<>>]
    /\ ophase = "idle"

\* parseSections: a text section is found and handed to decodeInsns
ParseSections ==
    /\ ophase = "idle"
    /\ text' \in Texts
    /\ ophase' = "decode"
    /\ UNCHANGED <<opc, inst, iinfs, irelocs, idecinfs, iquery, cache, lobj,
                   faddr, session, cmd, relsym, loaderVars>>

-----------------------------------------------------------------------------
(* Object::insnInfo *)

\* text.vm: where the text section's bytes are in memory
TextVm == 1000

\* vm2rva: a virtual address in the text coordinate space of the records
vm2rva(tx, vm) == vm - TextVm + tx.frva

\* std::lower_bound(iinfs_.begin(), iinfs_.end(), InsnInfo{.rva = rva}) with
\* records ordered by offset: the first record not before rva, 0 for end()
insnInfo(infs, rva) ==
    LET notless == {i \in 1..Len(infs) : ~(infs[i].rva < rva)}
    IN IF notless = {} THEN 0 ELSE CHOOSE i \in notless : \A j \in notless : i <= j

\* insnInfo(vm) for an address of the decoded section; found = 0 is abort()
InsnInfoCall ==
    /\ ophase = "decoded"
    /\ \E vm \in TextVm..(TextVm + TextSize(text) - 1) :
         iquery' = [vm |-> vm, found |-> insnInfo(iinfs, vm2rva(text, vm))]
    /\ ophase' = "run"
    /\ UNCHANGED <<text, opc, inst, iinfs, irelocs, idecinfs, cache, lobj, faddr, session, cmd, relsym,
                   loaderVars>>

-----------------------------------------------------------------------------
(* Object::generateCache, Object::~Object and InterpObject::InterpObject *)

\* base64::encode over bytes: four 6-bit digits per three bytes, 64 is '='
RECURSIVE Base64Encode(_)
Base64Encode(b) ==
    CASE Len(b) = 0 -> <<>>
      [] Len(b) = 1 -> <<b[1] \div 4, (b[1] % 4) * 16, 64, 64>>
      [] Len(b) = 2 ->
            <<b[1] \div 4, (b[1] % 4) * 16 + b[2] \div 16, (b[2] % 16) * 4, 64>>
      [] OTHER ->
            <<b[1] \div 4, (b[1] % 4) * 16 + b[2] \div 16,
              (b[2] % 16) * 4 + b[3] \div 64, b[3] % 64>>
            \o Base64Encode(SubSeq(b, 4, Len(b)))

\* base64::decode: the bytes up to the first '='
RECURSIVE Base64Decode(_)
Base64Decode(e) ==
    IF Len(e) < 4 THEN <<>>
    ELSE IF e[3] = 64 THEN <<e[1] * 4 + e[2] \div 16>>
    ELSE IF e[4] = 64
         THEN <<e[1] * 4 + e[2] \div 16, (e[2] % 16) * 16 + e[3] \div 4>>
    ELSE <<e[1] * 4 + e[2] \div 16, (e[2] % 16) * 16 + e[3] \div 4,
           (e[3] % 4) * 64 + e[4]>>
         \o Base64Decode(SubSeq(e, 5, Len(e)))

\* Object::cover: the address lies in the object's own storage
cover(vm) == vm >= DynBuffer /\ vm < TextVm + 100

\* the irefsyms map generateCache fills from irelocs_[i..], in insertion order
RECURSIVE RefSyms(_, _, _, _)
RefSyms(irs, i, its, acc) ==
    IF i > Len(irs) THEN acc
    ELSE LET r == irs[i]
             found == IF cover(r.target) THEN "" ELSE FindModule(imods, its, r.target)
             mod == IF found # "" THEN found ELSE "self"
             at == {k \in 1..Len(acc) : acc[k].mod = mod}
             acc1 == IF at = {}
                     THEN Append(acc, [mod |-> mod, names |-> <<>>, rvas |-> <<>>])
                     ELSE acc
             k == CHOOSE j \in 1..Len(acc1) : acc1[j].mod = mod
         IN RefSyms(irs, i + 1, its,
                    IF found # ""
                    THEN [acc1 EXCEPT ![k].names = Append(@, r.name)]
                    ELSE [acc1 EXCEPT ![k].rvas = Append(@, r.target - TextVm)])

\* ~Object of the decoded object: its buffer is no container, so
\* generateCache writes one, refreshing the loader's module list first
ObjectDtor ==
    /\ ophase = "decoded"
    /\ \E ms \in {ModsInsertAll(mods, EnvModules(nloaded))} :
       \E its \in {SortedMods(ms)} :
         /\ mods' = ms
         /\ modits' = its
         /\ located' = FindModule(imods, its, NULL)
         /\ cache' = [magic |-> "iobj", version |-> "this",
                      arch |-> text.arch, otype |-> text.fmt,
                      instinfos |-> iinfs,
                      instmetas |-> {[key |-> Base64Encode(m.key), enc |-> m.enc] :
                                        m \in idecinfs},
                      irefsyms |-> RefSyms(irelocs, 1, its, <<>>)]
    /\ ophase' = "cached"
    /\ UNCHANGED <<text, opc, inst, iinfs, irelocs, idecinfs, iquery, lobj, faddr, session, cmd, relsym>>
    /\ UNCHANGED <<syms, nextSlot, mhandles, imods, boost, nloaded, lockOwner,
                   lockCount, stack, calls, overlaps, rets, loadSeq, boostRuns>>

\* the names of one dependent module: loader.locate(s), else
\* Loader::locateSymbol(s, false), pushed as RelocInfo{s, target}
RECURSIVE ReloadNames(_, _, _, _)
ReloadNames(h, names, i, st) ==
    IF i > Len(names) THEN st
    ELSE LET n == names[i]
             scoped == ScopedTarget(imods, h, n)
             s1 == IF SymsHas(st.syms, n) THEN st.syms
                   ELSE IF scoped # NULL THEN SymsInsert(st.syms, n, scoped, st.next)
                   ELSE LocateSyms(st.syms, st.next, n)
         IN ReloadNames(h, names, i + 1,
               [st EXCEPT
                  !.syms = s1,
                  !.next = SlotAfterInsert(st.syms, n, st.next),
                  !.relocs = Append(@, [name |-> n, target |-> s1[n].val,
                                        type |-> ""]),
                  !.calls = @ + 1])

\* the irefsyms loop of the constructor over the map in iteration order
RECURSIVE ReloadRefs(_, _, _, _)
ReloadRefs(refs, i, textrva, st) ==
    IF i > Len(refs) \/ st.exited THEN st
    ELSE LET e == refs[i]
             h == IF e.mod \in Paths /\ mhandles[e.mod] # NULL
                  THEN mhandles[e.mod] ELSE NULL
             selfs == [j \in 1..Len(e.rvas) |->
                         [name |-> "self", target |-> e.rvas[j] + textrva, type |-> ""]]
         IN ReloadRefs(refs, i + 1, textrva,
               IF e.rvas # <<>> THEN [st EXCEPT !.relocs = @ \o selfs]
               ELSE IF h = NULL THEN [st EXCEPT !.exited = TRUE]
               ELSE ReloadNames(h, e.names, 1, st))

\* an InterpObject before its constructor body ran
NoInterp ==
    [valid |-> FALSE, fbuf |-> FALSE, parsed |-> FALSE, log |-> "", iinfs |-> <<>>,
     idecinfs |-> {}, irelocs |-> <<>>, calls |-> 0]

\* InterpObject::InterpObject on a container of this build or of another one
InterpObjectCtor ==
    /\ ophase = "cached"
    /\ \E version \in {"this", "other"} :
         IF version # "this"
         THEN /\ lobj' = [NoInterp EXCEPT !.log = "version"]
              /\ ophase' = "rejected"
              /\ UNCHANGED <<syms, nextSlot>>
         ELSE \E p \in Permutations(1..Len(cache.irefsyms)) :
              \E st \in {ReloadRefs([i \in 1..Len(cache.irefsyms) |->
                                        cache.irefsyms[p[i]]], 1, text.frva,
                                     [syms |-> syms, next |-> nextSlot,
                                      relocs |-> <<>>, calls |-> 0,
                                      exited |-> FALSE])} :
                /\ lobj' = [NoInterp EXCEPT
                              !.valid = TRUE, !.fbuf = TRUE, !.parsed = TRUE,
                              !.iinfs = cache.instinfos,
                              !.idecinfs = {[key |-> Base64Decode(m.key),
                                             enc |-> m.enc] : m \in cache.instmetas},
                              !.irelocs = st.relocs,
                              !.calls = st.calls]
                /\ ophase' = IF st.exited THEN "exited" ELSE "loaded"
                /\ syms' = st.syms
                /\ nextSlot' = st.next
    /\ UNCHANGED <<text, opc, inst, iinfs, irelocs, idecinfs, iquery, cache, faddr, session, cmd, relsym>>
    /\ UNCHANGED <<mhandles, imods, mods, modits, boost, nloaded, lockOwner,
                   lockCount, stack, calls, overlaps, rets, located, loadSeq,
                   boostRuns>>

\* ~Object of the InterpObject: fbuf_->getBuffer(); with fbuf_ never assigned
\* this reads through a null pointer, and the read either faults or not
InterpObjectDtor ==
    /\ ophase \in {"loaded", "rejected"}
    /\ IF lobj.fbuf
       THEN ophase' = "destroyed"
       ELSE ophase' \in {"destroyed", "crashed"}
    /\ UNCHANGED <<text, opc, inst, iinfs, irelocs, idecinfs, iquery, cache, lobj,
                   faddr, session, cmd, relsym, loaderVars>>

ObjNext ==
    \/ DecodeStep
    \/ DecodeDone
    \/ InsnInfoCall
    \/ ObjectDtor
    \/ InterpObjectCtor
    \/ InterpObjectDtor

ObjSpec == ObjInit /\ [][ObjNext]_vars

-----------------------------------------------------------------------------
\* the loop of decodeInsns alone, run by a thread that keeps running
DecodeNext ==
    \/ ParseSections
    \/ DecodeStep
    \/ DecodeDone

DecodeSpec == FileInit /\ [][DecodeNext]_vars /\ WF_vars(DecodeStep \/ DecodeDone)

(* Shared-structure accesses of the step a thread is about to take *)

Reads(f) ==
    CASE f.op = "resolve" /\ f.pc = "find" -> {"syms"}
      [] f.op = "resolve" /\ f.pc = "search" -> {"imods", "mhandles"}
      [] f.op = "resolveH" /\ f.pc = "find" -> {"syms"}
      [] f.op = "resolveH" /\ f.pc = "search" -> {"imods"}
      [] f.op = "loadLibrary" /\ f.pc = "find" -> {"mhandles"}
      [] f.op = "cacheObject" /\ f.pc = "body" -> {"mhandles"}
      [] f.op = "find" /\ f.pc = "check" -> {"mods"}
      [] f.op = "find" /\ f.pc = "search" -> {"imods", "modits"}
      [] f.op \in {"executable", "belong"} /\ f.pc = "body" -> {"imods"}
      [] OTHER -> {}

Writes(f) ==
    CASE f.op = "resolve" /\ f.pc \in {"insert", "fallback"} -> {"syms"}
      [] f.op = "resolveH" /\ f.pc = "search" ->
            IF ScopedTarget(imods, f.handle, f.name) # NULL THEN {"syms"} ELSE {}
      [] f.op = "loadLibrary" /\ f.pc = "insert" -> {"mhandles"}
      [] f.op = "cacheObject" /\ f.pc = "body" ->
            IF mhandles[f.path] = NULL THEN {"imods", "mhandles"} ELSE {}
      [] f.op = "cacheSymbol" /\ f.pc = "body" -> {"syms"}
      [] f.op = "find" /\ f.pc = "rebuild" -> {"mods", "modits"}
      [] OTHER -> {}

DataRace ==
    \E t \in Threads, u \in Threads :
        /\ t # u /\ Busy(t) /\ Busy(u)
        /\ Writes(Top(t)) \cap (Reads(Top(u)) \cup Writes(Top(u))) # {}

FramesOf(t) == {stack[t][i] : i \in 1..Len(stack[t])}
LockedFrames(t) == Cardinality({i \in 1..Len(stack[t]) : stack[t][i].locked})

\* the names no module, table or index of the environment defines
AbsentNames ==
    {n \in Names :
        /\ ProcTable[n] = NULL
        /\ \A l \in NativeLibs : NativeExports(l)[n] = NULL
        /\ \A o \in Objects : ObjExports(o)[n] = NULL
        /\ RuntimeLibFind(n) = ""
        /\ ~SymsHas(SeededSyms(Names), n)}

SeededNames == {n \in Names : SymsHas(SeededSyms(Names), n)}

-----------------------------------------------------------------------------
(* Claims *)

\* C1 -- Resolver memoization: once a global locateSymbol of a name has
\* returned, the name is in the symbol cache; all returned addresses for the
\* same (name, data) agree; and a call that begins after such a return never
\* leaves the cache-hit path (it runs no module search, loads nothing).
C1_Memoization ==
    /\ \A e \in rets : e.addr # RAISED => SymsHas(syms, e.name)
    /\ \A e1 \in rets, e2 \in rets :
          (e1.name = e2.name /\ e1.data = e2.data /\ e1.addr # RAISED /\ e2.addr # RAISED)
              => e1.addr = e2.addr
    /\ \A t \in Threads : \A f \in FramesOf(t) :
          (f.op = "resolve" /\ f.late)
              => /\ f.pc \in {"lock", "find", "unlock"}
                 /\ f.pc = "unlock" => f.via = "cache"

\* C1 witness: a second lookup of an already resolved name returned from the
\* cache, after the first one went through the module search or the fallback.
C1_Witness ==
    \E t \in Threads :
        /\ At(t, "resolve", "unlock") /\ Top(t).late /\ Top(t).via = "cache"
        /\ Top(t).name \notin SeededNames
        /\ \E e \in rets : e.name = Top(t).name /\ e.data = Top(t).data
                            /\ e.addr = Top(t).ret

\* C2 -- Resolver terminal fallback (as claimed): no global locateSymbol
\* returns null or raises, and a lookup that misses the cache for a name
\* absent from every tier returns the abort address (the slot holding it for
\* a data lookup) with the name cached to the abort address.  Stated for the
\* behaviours in which no two calls overlap.
C2_TerminalFallback ==
    overlaps = 0 =>
    /\ \A e \in rets : e.addr # NULL /\ e.addr # RAISED
    /\ \A t \in Threads :
          (At(t, "resolve", "unlock") /\ Top(t).name \in AbsentNames
                                      /\ Top(t).via # "cache")
              => /\ syms[Top(t).name].val = AbortAddr
                 /\ Top(t).ret = IF Top(t).data THEN syms[Top(t).name].slot
                                 ELSE AbortAddr

\* C3 -- Lock discipline (as claimed): a non-main thread that is about to
\* mutate the symbol cache, the handle map, the object list or the
\* reverse-lookup array owns the resolver lock.
C3_LockDiscipline ==
    \A t \in Threads \ {MainThread} :
        (Busy(t) /\ Writes(Top(t)) # {}) => lockOwner = t

\* C4 -- Data-race freedom (as claimed): no two threads are ever about to
\* access the same shared structure with at least one of them writing it.
C4_NoDataRace == ~DataRace

\* the lock's depth is exactly the number of live guards of its owner, the
\* main thread never takes it, and it is free when no call is in progress
C5_LockBalanced ==
    /\ lockCount >= 0
    /\ (lockOwner = NoThread) <=> (lockCount = 0)
    /\ \A t \in Threads :
          /\ LockedFrames(t) = IF lockOwner = t THEN lockCount ELSE 0
          /\ isMain(t) => LockedFrames(t) = 0
    /\ AllIdle => lockOwner = NoThread

\* C5 -- Re-entrancy without deadlock: a thread is never blocked by a lock it
\* holds, every acquisition is matched by one release of the same thread (the
\* lock's depth always equals the owner's live guards, so it is free when the
\* outermost call has returned), and every call in progress eventually
\* completes.
C5_Reentrancy ==
    /\ []C5_LockBalanced
    /\ \A t \in Threads : Busy(t) ~> ~Busy(t)

\* C5 witness: a non-main thread holds the lock twice (it re-entered the
\* resolver) while another non-main thread waits for the lock.
C5_Witness ==
    \E t \in Threads, u \in Threads :
        /\ t # u /\ lockOwner = t /\ lockCount >= 2
        /\ Busy(u) /\ Top(u).pc = "lock" /\ ~isMain(u)

\* C6 -- Global lookup precedence (as claimed): on a cache miss an
\* interpreted module's export wins over everything; without one, a loaded
\* native handle's definition wins over the process table; the process table
\* is used only when neither defines the name.  Stated for the behaviours in
\* which no two calls overlap.
C6_Precedence ==
    \A t \in Threads :
        (overlaps = 0 /\ At(t, "resolve", "insert") /\ Top(t).via = "search")
            => LET f == Top(t)
               IN /\ f.gImod # NULL => f.target = f.gImod
                  /\ (f.gImod = NULL /\ f.gFirst # NULL)
                        => \E l \in NativeLibs : f.target = NativeExports(l)[f.name]
                  /\ (f.gImod = NULL /\ f.gFirst = NULL)
                        => f.target = ProcTable[f.name]

\* C7 -- Native handles in load order (as claimed): when no interpreted
\* module defines the name, the lookup returns the definition of the native
\* module that was loaded first among those defining it.  Stated for the
\* behaviours in which no two calls overlap.
C7_LoadOrder ==
    \A t \in Threads :
        (overlaps = 0 /\ At(t, "resolve", "insert") /\ Top(t).via = "search"
            /\ Top(t).gImod = NULL /\ Top(t).gFirst # NULL)
            => Top(t).target = Top(t).gFirst

\* C8 -- Data indirection: every data lookup returned the address of the
\* name's cache slot, every function lookup the slot's content; the slot of a
\* name never moves, and dereferencing the returned slot address yields what
\* the function lookups of that name return.
C8_DataIndirection ==
    \A e \in rets :
        e.addr # RAISED =>
            /\ SymsHas(syms, e.name)
            /\ e.data => e.addr = syms[e.name].slot
            /\ ~e.data => e.addr = syms[e.name].val
            /\ \A n \in Names \ {e.name} : syms[n].slot # syms[e.name].slot

\* C8 witness: the same name was looked up both as data and as function.
C8_Witness ==
    \E e1 \in rets, e2 \in rets :
        /\ e1.name = e2.name /\ e1.data /\ ~e2.data
        /\ e1.addr = syms[e1.name].slot /\ e2.addr = syms[e1.name].val
        /\ e1.name \notin SeededNames

\* C9 -- Simulated globals verbatim (as claimed): a data lookup of a
\* pre-seeded name returns the pre-seeded storage address itself.
C9_SeededVerbatim ==
    \A e \in rets :
        (e.name = "___dso_handle" /\ e.data) => e.addr = DsoHandleStorage

\* C9 (amended) -- a data lookup of a pre-seeded name returns the address of
\* the cache slot the constructor created for it, whose content is the
\* pre-seeded storage address; only a function lookup returns that storage
\* address itself.
C9_SeededBoxed ==
    \A e \in rets :
        e.name = "___dso_handle" =>
            /\ syms[e.name].val = DsoHandleStorage
            /\ e.data => (e.addr = syms[e.name].slot /\ e.addr = SlotBase + 1)
            /\ ~e.data => e.addr = DsoHandleStorage

\* C9 witness: a data lookup of the pre-seeded name has returned.
C9_Witness ==
    \E e \in rets : e.name = "___dso_handle" /\ e.data /\ e.addr # DsoHandleStorage

\* C10 -- One-shot latch (as claimed): in every interleaving the lazy load of
\* the boost group runs at most once, and only for a boost name that missed
\* the cache.
C10_OneShotLatch ==
    /\ boostRuns <= 1
    /\ \A t \in Threads :
          At(t, "resolve", "boostload")
              => IsBoostName(Top(t).name) /\ Top(t).via # "cache"

\* C11 -- Hash-index tier ordering (as claimed): a global lookup is on its
\* hash-index path (about to load the indexed library, or back from the scoped
\* retry) only if no loaded interpreted module exports the name, no loaded
\* native library defines it and the process table lacks it; and the abort
\* fallback after an index hit is applied only when the scoped retry failed.
\* Stated for the behaviours in which no two calls overlap.
C11_HashTierLast ==
    \A t \in Threads : \A f \in FramesOf(t) :
        (overlaps = 0 /\ f.op = "resolve" /\ f.pc \in {"scoped", "fallback"})
            => /\ RuntimeLibFind(f.name) # ""
               /\ f.gImod = NULL
               /\ f.gFirst = NULL
               /\ ProcTable[f.name] = NULL

\* what the scoped search is to find: the export of the loaded interpreted
\* module the handle designates, otherwise the native lookup on the handle
C12_Expected(h, n) ==
    LET own == IF \E i \in 1..Len(imods) : HandleOf(imods[i]) = h
               THEN ObjExports(PathOfHandle(h))[n] ELSE NULL
    IN IF own # NULL THEN own ELSE find_symbol(h, n)

\* the step a thread takes from the search of resolve(handle, name, data)
C12_SearchStep(t) ==
    (At(t, "resolveH", "search") /\ stack'[t] # stack[t])
        => LET f == Top(t)
               g == stack'[t][Len(stack'[t])]
               want == C12_Expected(f.handle, f.name)
           IN /\ g.op = "resolveH" /\ g.pc = "unlock"
              /\ want = NULL => (g.ret = NULL /\ syms' = syms)
              /\ (want # NULL /\ ~SymsHas(syms, f.name))
                    => /\ syms'[f.name].val = want
                       /\ \A n \in Names \ {f.name} : syms'[n] = syms[n]
                       /\ g.ret = IF f.data THEN syms'[f.name].slot ELSE want

\* C12 -- Module-scoped lookup: on a cache miss the scoped resolve returns the
\* handle's own interpreted export, otherwise the native lookup on the handle;
\* when neither finds the name it returns null, applies no abort fallback and
\* leaves the symbol cache unchanged; on success the name is cached with the
\* address found and nothing else changes in the cache.
C12_ScopedLookup == [][\A t \in Threads : C12_SearchStep(t)]_vars

\* C12 witness: a top-level locate on a loaded native handle missed the cache,
\* found nothing and is returning null with the name still uncached.
C12_Witness ==
    \E t \in Threads :
        /\ At(t, "resolveH", "unlock") /\ Len(stack[t]) = 1
        /\ Top(t).handle # NULL /\ Top(t).ret = NULL
        /\ ~SymsHas(syms, Top(t).name)

\* the enumerated native module with the greatest base not above the address
C20_Below(a) == {m \in mods : m[1] <= a}
C20_Nearest(a) ==
    IF C20_Below(a) = {} THEN ""
    ELSE (CHOOSE m \in C20_Below(a) : \A o \in C20_Below(a) : o[1] <= m[1])[2]

\* C20 -- Address-to-module reverse lookup (as claimed): after a locateModule
\* call, the path returned is the cache path of the interpreted object the
\* address belongs to; otherwise the path of the enumerated module with the
\* greatest base at or below the address; and the empty path when the address
\* is below every enumerated base, for lists of any size.
C20_ReverseLookup ==
    faddr # NULL =>
        located = IF \E i \in 1..Len(imods) : ObjBelong(imods[i], faddr)
                  THEN imods[CHOOSE i \in 1..Len(imods) : ObjBelong(imods[i], faddr)]
                  ELSE C20_Nearest(faddr)

\* C13 -- Instruction ordering invariant: the instruction-info list of a text
\* section starts at the section's file rva, every record has a length greater
\* than zero, each record's offset is the previous record's offset plus the
\* previous record's length, and so the offsets are strictly increasing --
\* with undecodable bytes and x86 prefix merging included.
C13_InsnOrdering ==
    /\ iinfs # <<>> => iinfs[1].rva = text.frva
    /\ \A i \in 1..Len(iinfs) : iinfs[i].len > 0
    /\ \A i \in 2..Len(iinfs) : iinfs[i].rva = iinfs[i - 1].rva + iinfs[i - 1].len
    /\ \A i, j \in 1..Len(iinfs) : i < j => iinfs[i].rva < iinfs[j].rva

\* a decoded x86 section with an undecodable byte and a prefix-merged instruction
C13_Witness ==
    /\ ophase = "decoded"
    /\ text.arch = X86_64
    /\ \E i, j \in 1..Len(iinfs) :
         /\ iinfs[i].type = INSN_ABORT
         /\ iinfs[j].type = INSN_NORMAL /\ iinfs[j].len = 2

\* the relocation site the i-th instruction record was bound to, and the kind
\* its relocation was classified as
SiteOf(i) == Rsym(FoundRsym(text, iinfs[i].rva, iinfs[i].len))
KindOf(i) == reloc_symtype(text.arch, text.fmt, SiteOf(i))

\* C15 -- Relocation deduplication: two instructions whose relocations
\* reference the same undefined symbol with the same kind carry the same
\* relocation index, and the relocation table holds a single record for that
\* symbol and kind.
C15_Dedup ==
    \A i, j \in 1..Len(iinfs) :
        (/\ iinfs[i].rflag = 1 /\ iinfs[j].rflag = 1
         /\ SiteOf(i).undef /\ SiteOf(j).undef
         /\ SiteOf(i).name = SiteOf(j).name
         /\ KindOf(i) = KindOf(j))
            => /\ iinfs[i].reloc = iinfs[j].reloc
               /\ Cardinality({k \in 1..Len(irelocs) :
                                  /\ irelocs[k].name = SiteOf(i).name
                                  /\ irelocs[k].type = KindOf(i)}) <= 1

\* the relocation sites inside the byte range of the i-th instruction record
RangeSites(i) ==
    {RsymAt(text, iinfs[i].rva - text.frva + o) : o \in 0..(iinfs[i].len - 1)} \ {""}

\* C16 -- External relocation binding: an instruction whose byte range
\* contains a relocation against an undefined symbol has its relocation flag
\* set and its index designates a record of the relocation table whose name is
\* that symbol and whose target is the address the resolver returned for it;
\* an instruction whose range contains no relocation has the flag clear.
C16_ExternBinding ==
    \A i \in 1..Len(iinfs) :
        /\ \A r \in RangeSites(i) :
              Rsym(r).undef =>
                 /\ iinfs[i].rflag = 1
                 /\ iinfs[i].reloc < Len(irelocs)
                 /\ irelocs[iinfs[i].reloc + 1].name = Rsym(r).name
                 /\ irelocs[iinfs[i].reloc + 1].target =
                       SlotRet(syms[Rsym(r).name],
                               reloc_symtype(text.arch, text.fmt, Rsym(r)) = ST_Data)
        /\ RangeSites(i) = {} => iinfs[i].rflag = 0

\* the i-th instruction record is bound to a defined symbol whose home section
\* is a dynamic section
C17_DynSite(i) ==
    /\ iinfs[i].rflag = 1
    /\ SiteOf(i).name # ""
    /\ ~SiteOf(i).undef
    /\ \E k \in 1..Len(dynsects) : dynsects[k].index = SiteOf(i).sect

C17_SameSymbol(i, j) ==
    /\ C17_DynSite(i) /\ C17_DynSite(j)
    /\ SiteOf(i).name = SiteOf(j).name
    /\ SiteOf(i).addend = SiteOf(j).addend

C17_BufferTarget(i) ==
    irelocs[iinfs[i].reloc + 1].target =
        DynBuffer + SiteOf(i).symaddr - SectAddress(SiteOf(i).sect) + SiteOf(i).addend

\* C17 (as stated) -- Dynamic Section precedence for local symbols: a
\* relocation against a defined symbol of a dynamic section binds to the
\* section's buffer at (symbol address - section address + addend), and two
\* instructions referencing the same such symbol with the same addend bind to
\* the same target and share one relocation record.
C17_SharedRecord ==
    \A i, j \in 1..Len(iinfs) :
        C17_SameSymbol(i, j)
            => /\ C17_BufferTarget(i)
               /\ iinfs[i].reloc = iinfs[j].reloc

\* C17 (amended) -- the binding is to the dynamic section's buffer at (symbol
\* address - section address + addend), never to the file content; two
\* instructions referencing the same such symbol with the same addend bind to
\* the same target address, and they share one relocation record when their
\* relocations are classified as the same kind (data or function).
C17_DynPrecedence ==
    \A i, j \in 1..Len(iinfs) :
        C17_SameSymbol(i, j)
            => /\ C17_BufferTarget(i)
               /\ irelocs[iinfs[i].reloc + 1].target
                     # SectContent(SiteOf(i).sect) + SiteOf(i).symaddr
                         - SectAddress(SiteOf(i).sect) + SiteOf(i).addend
               /\ irelocs[iinfs[i].reloc + 1].target = irelocs[iinfs[j].reloc + 1].target
               /\ KindOf(i) = KindOf(j) => iinfs[i].reloc = iinfs[j].reloc

\* a read and a write of one BSS symbol, decoded and sharing the only record
C17_Witness ==
    /\ ophase = "decoded"
    /\ text.units = <<"rd_g", "wr_g">>
    /\ Len(iinfs) = 2
    /\ C17_SameSymbol(1, 2)
    /\ iinfs[1].reloc = iinfs[2].reloc
    /\ Len(irelocs) = 1

\* C14 -- Instruction lookup by address: for any virtual address inside the
\* decoded text range, the first byte of an instruction or an interior byte,
\* insnInfo(address) returns the record r with
\* r.offset <= rva(address) < r.offset + r.length.
C14_InsnLookup ==
    iquery # <<>> =>
        /\ iquery.found # 0
        /\ iinfs[iquery.found].rva <= vm2rva(text, iquery.vm)
        /\ vm2rva(text, iquery.vm) < iinfs[iquery.found].rva + iinfs[iquery.found].len

\* the relocation targets of the container: (module name, symbol name) for
\* external targets, ("self", text-relative offset) for targets in the object
C18_Stored ==
    UNION {{<<cache.irefsyms[k].mod, cache.irefsyms[k].names[i]>> :
                i \in 1..Len(cache.irefsyms[k].names)}
           \cup {<<"self", cache.irefsyms[k].rvas[i]>> :
                    i \in 1..Len(cache.irefsyms[k].rvas)} :
           k \in 1..Len(cache.irefsyms)}

\* the same for the relocation records of the reconstructed object
C18_Reloaded ==
    {IF lobj.irelocs[i].name = "self"
     THEN <<"self", lobj.irelocs[i].target - text.frva>>
     ELSE <<FindModule(imods, modits, lobj.irelocs[i].target), lobj.irelocs[i].name>> :
        i \in 1..Len(lobj.irelocs)}

\* C18 -- Cache round-trip: generating the container and constructing an
\* InterpObject from it yields the same instruction-info sequence, the same
\* operand-decode table (through the base64 key encoding) and the same set of
\* relocation targets, expressed as (module name, symbol name) for external
\* targets and ("self", text-relative offset) for targets inside the object.
C18_RoundTrip ==
    ophase = "loaded" =>
        /\ lobj.valid
        /\ lobj.iinfs = iinfs
        /\ lobj.idecinfs = idecinfs
        /\ C18_Reloaded = C18_Stored

\* C19 -- Cache version mismatch: constructing an object from a container
\* whose version differs from this build's leaves the object invalid, logs a
\* version-mismatch message, parses nothing, resolves no symbol, regenerates
\* nothing, and neither the construction nor the later destruction crashes.
C19_VersionMismatch ==
    (lobj # <<>> /\ lobj.log = "version") =>
        /\ ~lobj.valid
        /\ ~lobj.parsed
        /\ lobj.calls = 0
        /\ lobj.irelocs = <<>>
        /\ cache.version = "this"
        /\ ophase # "crashed"

\* what one iteration of the decode loop appended, against the statuses the
\* decoder returned at the cursor
C23_Iteration ==
    (ophase = "decode" /\ iinfs' # iinfs) =>
        \E tail \in TailsOf(text.arch) :
            LET d == Decoded(text, tail, opc, inst)
                r == iinfs'[Len(iinfs')]
                minimum == IF text.arch = AArch64 THEN 4 ELSE 1
            IN /\ d.inst = inst'
               /\ Len(iinfs') = Len(iinfs) + 1
               /\ SubSeq(iinfs', 1, Len(iinfs)) = iinfs
               /\ r.rva = text.frva + opc
               /\ d.st = "fail" => r.type = INSN_ABORT /\ r.len = minimum
               /\ d.st = "soft" =>
                    /\ r.type = INSN_ABORT
                    /\ r.len = IF d.size = 0 THEN minimum ELSE d.size
               /\ r.len >= 1
               /\ opc' = opc + r.len

\* C23 -- Decode loop progress: a hard decode failure appends an abort record
\* of length 4 on AArch64 and 1 on x86-64, a soft failure an abort record of
\* the reported size or of that minimum when the size is zero; every iteration
\* appends exactly one record and moves the cursor by its length, which is at
\* least 1; and the decoding of a text section terminates.
C23_DecodeProgress ==
    [][C23_Iteration]_vars /\ ((ophase = "decode") ~> (ophase = "decoded"))

\* a decoded AArch64 section with a 4-byte abort record after other records,
\* and a decoded x86-64 section's 1-byte abort record
C23_Witness ==
    /\ ophase = "decoded"
    /\ \E i \in 2..Len(iinfs) :
           /\ iinfs[i].type = INSN_ABORT
           /\ iinfs[i].len = skipsz(text.arch)
           /\ text.arch = AArch64

\* no two records of the relocation table have the same target and kind
C24_Unique ==
    \A i, j \in 1..Len(irelocs) :
        (irelocs[i].target = irelocs[j].target /\ irelocs[i].type = irelocs[j].type)
            => i = j

\* C24 -- Relocation table uniqueness: at no point of decoding, the COFF
\* AArch64 page-offset-12L reclassification included, does the relocation
\* table hold two records with the same target and kind, and the kind of a
\* record that an already emitted instruction references stays the kind that
\* instruction was bound with.
C24_RelocTable ==
    [][/\ C24_Unique
       /\ C24_Unique'
       /\ \A i \in 1..Len(iinfs) :
             iinfs[i].rflag = 1 =>
                irelocs'[iinfs[i].reloc + 1].type = irelocs[iinfs[i].reloc + 1].type]_vars

\* the reconstructed record n stands for the symbol of the original record o:
\* the same self offset for a target inside the object, the same name, kind
\* and resolved target otherwise
C29_Same(o, n) ==
    IF cover(o.target)
    THEN n.name = "self" /\ n.target - text.frva = o.target - TextVm
    ELSE n.name = o.name /\ n.type = o.type /\ n.target = o.target

\* C29 -- Relocation indices across the cache round-trip: for every
\* instruction with the relocation flag set, the record at its relocation index
\* in the object reconstructed from the container refers to the same symbol as
\* the record at that index in the object the container was generated from.
C29_IndexRoundTrip ==
    ophase = "loaded" =>
        \A i \in 1..Len(iinfs) :
            iinfs[i].rflag = 1 =>
                /\ lobj.iinfs[i].rflag = 1
                /\ lobj.iinfs[i].reloc < Len(lobj.irelocs)
                /\ C29_Same(irelocs[iinfs[i].reloc + 1],
                            lobj.irelocs[lobj.iinfs[i].reloc + 1])

\* the addresses a name has in the libraries of the symbol hash index whose
\* table holds the name's hash
C30_Defining(n) ==
    {(IF HashIndex[i].path \in Objects THEN ObjExports(HashIndex[i].path)
      ELSE NativeExports(HashIndex[i].path))[n] :
        i \in {j \in 1..Len(HashIndex) :
                  HashSearch(HashIndex[j].hashes, 1, Len(HashIndex[j].hashes), Hash(n))}}
    \ {NULL}

\* C30 -- Completeness of hash-index resolution: a name that neither the
\* process nor a loaded module defines, and that a library of the Symbol Hash
\* Index both lists by hash and defines, is resolved by locateSymbol to the
\* address that library gives it, never to the abort stub; for data lookups
\* the returned cache node holds that address.
C30_HashCompleteness ==
    \A e \in rets :
        (/\ e.addr # RAISED
         /\ ProcTable[e.name] = NULL
         /\ ~IsBoostName(e.name)
         /\ C30_Defining(e.name) # {})
            => IF e.data
               THEN /\ syms[e.name].slot = e.addr
                    /\ syms[e.name].val \in C30_Defining(e.name)
               ELSE e.addr \in C30_Defining(e.name)

\* C21 -- Session-end caching: when deinitialize has run, the list of loaded
\* interpreted objects is empty; after deinitialize(0) the cache was generated
\* exactly once for each loaded object that is not already a cache container
\* and not at all for a container; after deinitialize with a non-zero exit
\* code no cache was generated for any object, the objects' destruction
\* included.
C21_SessionEnd ==
    session.phase = "ended" =>
        /\ imods = <<>>
        /\ \A o \in session.loaded :
              session.gens[o] =
                  IF session.exitcode = 0 /\ ~isCache(o) THEN 1 ELSE 0

\* C25 -- Symbol cache append-only: no step of any operation (global or scoped
\* resolve, lazy library load, cacheSymbol, cacheObject) changes or removes
\* the value or the node of a name that is in the symbol cache; in particular
\* cacheSymbol on a cached name, with whatever address, changes nothing.
C25_AppendOnly ==
    [][\A n \in Names : SymsHas(syms, n) => syms'[n] = syms[n]]_vars

\* a thread inside cacheSymbol, about to insert a name that is cached with
\* another address, after a resolve of that name has returned
C25_Witness ==
    \E t \in Threads :
        /\ At(t, "cacheSymbol", "body")
        /\ SymsHas(syms, Top(t).name)
        /\ syms[Top(t).name].val # Top(t).target
        /\ Returned(Top(t).name)

\* the words after the first "--" of the command line
C22_After(av) == SubSeq(av, IDoubleDash(av) + 2, Len(av))

\* C22 -- Script arguments after the double dash: every program icpp starts
\* for a command line `icpp ... file ... -- a1 ... ak` gets argc = k + 1 and
\* argv = {file, a1, ..., ak}; no token after `--` is parsed as an icpp option
\* or run as an input file; and without `--` the program gets no extra
\* argument and a pointer that stays inside argv.
C22_ScriptArgs ==
    cmd.pc = "done" =>
        /\ \A i \in 1..Len(cmd.runs) :
              /\ ProgramArgv(cmd.argv, cmd.runs[i])
                     = <<cmd.runs[i].path>> \o C22_After(cmd.argv)
              /\ cmd.runs[i].iargv <= Len(cmd.argv)
              /\ \E j \in 2..IDoubleDash(cmd.argv) : cmd.argv[j] = cmd.runs[i].path
        /\ Len(cmd.opts) =
              Cardinality({j \in 2..IDoubleDash(cmd.argv) : cmd.argv[j] = "-lz"})
           \/ cmd.ret # 0 \/ \E j \in 2..IDoubleDash(cmd.argv) : cmd.argv[j] = "-v"

\* C26 -- ELF x86-64 text-relocation addend correction: for every 32-bit
\* signed raw addend a of a relocation gathered for a text section of an
\* x86-64 ELF object, the addend used for binding is 0 when a <= -4 and a + 4
\* otherwise, so it is never negative; AArch64 addends and the addends of ELF
\* data-section relocations are used unmodified.
C26_AddendCorrection ==
    /\ relsym.pc # "trap"
    /\ relsym.pc = "text" /\ relsym.arch = "X86_64" =>
          /\ relsym.addend >= 0
          /\ IF relsym.raw <= -4 THEN relsym.addend = 0
             ELSE relsym.addend - 4 = relsym.raw
    /\ relsym.pc = "text" /\ relsym.arch = "AArch64" =>
          relsym.addend = relsym.raw
    /\ relsym.pc \in {"data", "done", "fault"} /\ relsym.fmt = "ELF" =>
          relsym.addend = relsym.raw

\* the address of the symbol a relocation names
C27_Symbol ==
    IF relsym.sflags = "SF_Undefined" THEN ExternAddr
    ELSE TargetData + relsym.symoff

\* C27 -- Data-section PC-relative patch value: for an ELF R_X86_64_PC32
\* relocation in a data section the 32-bit value written at the site is
\* (target symbol address + addend - site address) mod 2^32, for local and
\* for undefined symbols alike; for COFF IMAGE_REL_AMD64_REL32 it is that
\* formula with the in-place addend, minus a further 4.
C27_PatchValue ==
    relsym.pc = "done" /\ relsym.wrote # {} =>
       /\ relsym.rtype = "R_X86_64_PC32" =>
             Read4(relsym.mem, relsym.offset) =
                Sub32(Add32(C27_Symbol, relsym.addend),
                      ContentData + relsym.offset)
       /\ relsym.rtype = "IMAGE_REL_AMD64_REL32" =>
             Read4(relsym.mem, relsym.offset) =
                Sub32(Sub32(Add32(C27_Symbol, relsym.inplace),
                            ContentData + relsym.offset), 4)

\* the patch site of n bytes lies inside the section
C28_InRange(n) == relsym.offset >= 0 /\ relsym.offset + n <= relsym.size

C28_NoBase == {"IMAGE_REL_AMD64_ADDR32NB", "IMAGE_REL_ARM64_ADDR32NB"}

C28_Width ==
    IF relsym.rtype \in {"R_X86_64_PC32", "IMAGE_REL_AMD64_REL32"} THEN 4 ELSE 8

\* C28 -- Data relocation never writes out of range: relocate_data writes 4
\* bytes only when offset + 4 <= section size and 8 bytes only when
\* offset + 8 <= section size; when the patch site would extend past the
\* section end no byte of the section or beyond it is modified, a warning is
\* logged and no stub spot is recorded; address-32-no-base relocations
\* modify nothing.
C28_NoOutOfRangeWrite ==
    /\ relsym.pc # "fault"
    /\ relsym.pc = "done" =>
          /\ relsym.wrote # {} =>
                /\ relsym.wrote =
                      relsym.offset..(relsym.offset + C28_Width - 1)
                /\ C28_InRange(C28_Width)
          /\ relsym.wrote = {} => relsym.mem = Content(relsym)
          /\ relsym.rtype \notin C28_NoBase /\ ~C28_InRange(C28_Width) =>
                /\ relsym.wrote = {}
                /\ relsym.warned
                /\ relsym.stubspots = <<>>
          /\ relsym.rtype \in C28_NoBase =>
                relsym.wrote = {} /\ relsym.mem = Content(relsym)

====
